---- MODULE Spec2Model ----
(***************************************************************************)
(* Verification model of js-gedcom's tag layer (class GEDCStruct of        *)
(* gedcstruct.js, held in src/g7structure.js lines 203-636).               *)
(*                                                                         *)
(* Text is a sequence of one-character strings.  A forest is an arena: a   *)
(* sequence of structures in creation order, which for the parser, for     *)
(* fromJSON and for structures built in document order is the pre-order    *)
(* in which toString, toJSON and fixPtrs visit them; superstructure,       *)
(* substructure, pointer and reference fields are indices into the arena.  *)
(***************************************************************************)
EXTENDS Integers, Sequences, FiniteSets, TLC

VARIABLES
  pc,       \* the last operation applied
  cfg,      \* the dialect configuration [d, len, escapes]
  built,    \* the forest built with the constructor (<<>> when the run starts from text)
  input,    \* the lines of the input text (<<>> when the run starts from a forest)
  text,     \* what toString returned: [status, text]
  parsed,   \* what fromString returned: [status, F, log, ctx]
  json,     \* what toJSON returned
  copy,     \* what fromJSON returned
  arg,      \* the arguments of the last query or typed-layer call
  res       \* what that call returned

vars == <<pc, cfg, built, input, text, parsed, json, copy, arg, res>>

(***************************************************************************)
(* Characters and the character classes of the line grammar.               *)
(***************************************************************************)
\* JavaScript's undefined, where a sequence of characters is expected
Undef == <<"undefined">>

Digits == <<"0", "1", "2", "3", "4", "5", "6", "7", "8", "9">>

IsDigit(c) == \E k \in 1..10 : Digits[k] = c

DigitVal(c) == (CHOOSE k \in 1..10 : Digits[k] = c) - 1

\* [ \t\p{Zs}] of reD
IsDelim(c) == c \in {" ", "\t"}

\* [\n\r]
IsEOL(c) == c \in {"\n", "\r"}

\* \p{Cc}, within the characters the model uses
IsCc(c) == c \in {"\n", "\r", "\t"}

\* \p{Z}, within the characters the model uses
IsZ(c) == c = " "

\* \p{WSpace}, within the characters the model uses
IsWSpace(c) == c \in {" ", "\t", "\n", "\r"}

\* (?:[^@#\p{Cc}]|\t) and (?:[^@\p{Cc}]|\t) of reX
XFirst(c) == (c # "@" /\ c # "#" /\ ~IsCc(c)) \/ c = "\t"

XRest(c) == (c # "@" /\ ~IsCc(c)) \/ c = "\t"

\* [^@\p{Cc}\p{Z}] and [^\p{Cc}\p{Z}] of reT
TFirst(c) == c # "@" /\ ~IsCc(c) /\ ~IsZ(c)

TRest(c) == ~IsCc(c) /\ ~IsZ(c)

NotEOL(c) == ~IsEOL(c)

\* The position after the longest run of characters satisfying P that starts
\* at position i of s (i itself when there is none): a greedy X+ or X*.
Span(s, i, P(_)) ==
  CHOOSE j \in i..(Len(s) + 1) :
    /\ \A k \in i..(j - 1) : P(s[k])
    /\ (j = Len(s) + 1 \/ ~P(s[j]))

\* s.substring(i-1, j-1): the characters at positions i..j-1
Sub(s, i, j) == IF j <= i THEN <<>> ELSE SubSeq(s, i, j - 1)

At(s, i) == IF i >= 1 /\ i <= Len(s) THEN s[i] ELSE "<end>"

RECURSIVE Flatten(_)
\* Array.prototype.join('') of a sequence of texts
Flatten(ss) == IF ss = <<>> THEN <<>> ELSE Head(ss) \o Flatten(Tail(ss))

RECURSIVE ToNum(_)
\* Number(l) of a string of digits
ToNum(l) == IF l = <<>> THEN 0 ELSE 10 * ToNum(SubSeq(l, 1, Len(l) - 1)) + DigitVal(l[Len(l)])

\* String(n) of a small non-negative integer
NumStr(n) == IF n < 10 THEN <<Digits[n + 1]>> ELSE <<Digits[(n \div 10) + 1], Digits[(n % 10) + 1]>>

(***************************************************************************)
(* The line regular expression lre of fromString, matched at one position. *)
(* The engine's backtracking is resolved by the grammar: L, D, X and T are *)
(* followed by a character outside their class, so only their longest run  *)
(* can match, except for the delimiter before the payload, which gives a   *)
(* character back when what follows it is a '@' that is neither a pointer  *)
(* at the end of the line nor an escape.                                   *)
(***************************************************************************)
NoMatch ==
  [ok |-> FALSE, index |-> 0, end |-> 0, l |-> <<>>, d1 |-> <<>>, i |-> Undef, d2 |-> Undef,
   t |-> <<>>, d3 |-> Undef, x |-> Undef, p |-> Undef, n |-> <<>>]

\* A match that starts at position i with the level l
StartMatch(i, l) == [NoMatch EXCEPT !.ok = TRUE, !.index = i, !.l = l]

\* reN at position q: [\n\r]\p{WSpace}* or the end of the input
NOk(s, q) == q = Len(s) + 1 \/ IsEOL(At(s, q))

NEnd(s, q) == IF q = Len(s) + 1 THEN q ELSE Span(s, q + 1, IsWSpace)

\* (N) matched from q to e: the match is complete
MatchEnd(s, m, q, e) == [m EXCEPT !.n = Sub(s, q, e), !.end = e]

\* (N) at position q
MatchN(s, m, q) == IF NOk(s, q) THEN MatchEnd(s, m, q, NEnd(s, q)) ELSE NoMatch

\* (P) from d to the end of the line le
MatchPEnd(s, m, d, le) == MatchN(s, [m EXCEPT !.p = Sub(s, d, le)], le)

\* (D)(P) with the delimiters q..d-1: P starts at d unless d holds a '@' that
\* starts no escape; then D gives its last character back, if it has two
MatchP(s, m, q, d) ==
  IF At(s, d) # "@" \/ At(s, d + 1) \in {"@", "#"}
  THEN MatchPEnd(s, [m EXCEPT !.d3 = Sub(s, q, d)], d, Span(s, d, NotEOL))
  ELSE IF d - q >= 2
  THEN MatchPEnd(s, [m EXCEPT !.d3 = Sub(s, q, d - 1)], d - 1, Span(s, d - 1, NotEOL))
  ELSE NoMatch

\* (D)@(X)@ with X ending before xe, when the line ends there; (D)(P) otherwise
MatchPtr(s, m, q, d, xe) ==
  IF At(s, xe) = "@" /\ NOk(s, xe + 1)
  THEN MatchN(s, [m EXCEPT !.d3 = Sub(s, q, d), !.x = Sub(s, d + 1, xe)], xe + 1)
  ELSE MatchP(s, m, q, d)

\* (D) matched q..d-1: a pointer or a payload follows
MatchD3(s, m, q, d) ==
  IF At(s, d) = "@" /\ XFirst(At(s, d + 1))
  THEN MatchPtr(s, m, q, d, Span(s, d + 1, XRest))
  ELSE MatchP(s, m, q, d)

\* (?:(D)(?:@(X)@|(P)))?(N) from position q, the end of the tag
MatchTail(s, m, q) ==
  IF IsDelim(At(s, q)) THEN MatchD3(s, m, q, Span(s, q, IsDelim)) ELSE MatchN(s, m, q)

\* (T) matched q..e-1
MatchTEnd(s, m, q, e) == MatchTail(s, [m EXCEPT !.t = Sub(s, q, e)], e)

\* (T) at position q
MatchT(s, m, q) ==
  IF TFirst(At(s, q)) /\ q <= Len(s) THEN MatchTEnd(s, m, q, Span(s, q + 1, TRest)) ELSE NoMatch

\* (D) after the identifier, matched q..d-1
MatchD2(s, m, q, d) == IF d = q THEN NoMatch ELSE MatchT(s, [m EXCEPT !.d2 = Sub(s, q, d)], d)

\* @(X)@ with '@' at d and X ending before xe
MatchI(s, m, d, xe) ==
  IF At(s, xe) = "@"
  THEN MatchD2(s, [m EXCEPT !.i = Sub(s, d + 1, xe)], xe + 1, Span(s, xe + 1, IsDelim))
  ELSE NoMatch

\* (D) after the level, matched q..d-1: an identifier or the tag follows
MatchD1(s, m, q, d) ==
  IF d = q THEN NoMatch
  ELSE IF At(s, d) # "@" THEN MatchT(s, [m EXCEPT !.d1 = Sub(s, q, d)], d)
  ELSE IF XFirst(At(s, d + 1))
  THEN MatchI(s, [m EXCEPT !.d1 = Sub(s, q, d)], d, Span(s, d + 1, XRest))
  ELSE NoMatch

\* (L) matched i..lEnd-1
MatchL(s, i, lEnd) ==
  IF lEnd = i THEN NoMatch
  ELSE MatchD1(s, StartMatch(i, Sub(s, i, lEnd)), lEnd, Span(s, lEnd, IsDelim))

\* lre at position i
MatchAt(s, i) == MatchL(s, i, Span(s, i, IsDigit))

RECURSIVE NextMatch(_, _)
\* The match m at position from, or else the first match after it
MatchOrNext(s, from, m) == IF m.ok THEN m ELSE NextMatch(s, from + 1)

\* The first match at or after position from (NoMatch when there is none):
\* one step of String.prototype.matchAll
NextMatch(s, from) ==
  IF from > Len(s) THEN NoMatch ELSE MatchOrNext(s, from, MatchAt(s, from))

(***************************************************************************)
(* Dialect configurations (g5ConfGEDC, g7ConfGEDC).  A configuration is    *)
(* [d, len, escapes]: d names the preset whose regular expressions are     *)
(* used, len and escapes are the preset's or a caller's own.               *)
(***************************************************************************)
Upper == {"A", "B", "C", "D", "E", "F", "G", "H", "I", "J", "K", "L", "M", "N", "O", "P",
          "Q", "R", "S", "T", "U", "V", "W", "X", "Y", "Z"}

Lower == {"a", "b", "c", "d", "e", "f", "g", "h", "i", "j", "k", "l", "m", "n", "o", "p",
          "q", "r", "s", "t", "u", "v", "w", "x", "y", "z"}

IsWord7(c) == c \in Upper \/ IsDigit(c) \/ c = "_"

IsWord5(c) == IsWord7(c) \/ c \in Lower

g7ConfGEDC == [d |-> "g7", len |-> -1, escapes |-> FALSE]

g5ConfGEDC == [d |-> "g5", len |-> 255, escapes |-> TRUE]

\* config.tag.test(t)
TagOK(c, t) ==
  IF c.d = "g7"
  THEN /\ Len(t) >= 1
       /\ \A k \in 1..Len(t) : IsWord7(t[k])
       /\ (t[1] \in Upper \/ (t[1] = "_" /\ Len(t) >= 2))
  ELSE Len(t) >= 1 /\ Len(t) <= 31 /\ \A k \in 1..Len(t) : IsWord5(t[k])

\* config.xref.test(i)
XrefOK(c, i) ==
  IF c.d = "g7"
  THEN Len(i) >= 1 /\ \A k \in 1..Len(i) : IsWord7(i[k])
  ELSE /\ Len(i) >= 1 /\ Len(i) <= 20 /\ IsWord5(i[1])
       /\ \A k \in 2..Len(i) : i[k] # "@" /\ ~IsCc(i[k])

\* config.linesep.test(n)
LinesepOK(c, n) ==
  IF c.d = "g7"
  THEN n \in {<<"\n">>, <<"\r">>, <<"\r", "\n">>, <<"\n", "\r">>}
  ELSE Len(n) >= 1 /\ IsEOL(n[1]) /\ \A k \in 2..Len(n) : n[k] \in {"\r", "\n", " ", "\t"}

\* config.delim.test(d)
DelimOK(c, d) == d = <<" ">>

\* config.payload && !config.payload.test(p): only g7ConfGEDC has a payload
\* expression, /^.+$/, and test(undefined) tests the text "undefined"
PayloadBad(c, p) == c.d = "g7" /\ p # Undef /\ (p = <<>> \/ \E k \in 1..Len(p) : IsEOL(p[k]))

(***************************************************************************)
(* GEDCStruct.  A payload is [k, s, n]: k = "undef" (no payload), "str"    *)
(* (the string s), "ptr" (the structure at index n) or "null" (the null    *)
(* pointer).  The temporary property ptr is [k, s, n] with k = "none" (no  *)
(* such property), "str" (the identifier s), "null", or "obj" (an object   *)
(* that is no GEDCStruct, the n-th of its kind).                           *)
(***************************************************************************)
PlUndef == [k |-> "undef", s |-> <<>>, n |-> 0]

PlStr(s) == [k |-> "str", s |-> s, n |-> 0]

PlPtr(n) == [k |-> "ptr", s |-> <<>>, n |-> n]

PlNull == [k |-> "null", s |-> <<>>, n |-> 0]

PtrNone == [k |-> "none", s |-> <<>>, n |-> 0]

PtrStr(s) == [k |-> "str", s |-> s, n |-> 0]

PtrNull == [k |-> "null", s |-> <<>>, n |-> 0]

PtrObj(n) == [k |-> "obj", s |-> <<>>, n |-> n]

\* The arguments ptr and str of the constructor: JavaScript values
ArgUndef == [k |-> "undef", s |-> <<>>, n |-> 0]

ArgStr(s) == [k |-> "str", s |-> s, n |-> 0]

ArgNull == [k |-> "null", s |-> <<>>, n |-> 0]

ArgStruct(n) == [k |-> "struct", s |-> <<>>, n |-> n]

ArgObj(n) == [k |-> "obj", s |-> <<>>, n |-> n]

\* A captured group as a constructor argument
ArgOf(g) == IF g = Undef THEN ArgUndef ELSE ArgStr(g)

\* sup is 0 for a structure without superstructure; id is Undef or an identifier
\* constructor(tag, sup, ptr, str, id)
Constructor(F, tag, sup, ptr, str, id) ==
  LET me == Len(F) + 1
      truthy == ptr.k = "obj" \/ (ptr.k = "str" /\ ptr.s # <<>>)
      node == [tag |-> tag, sup |-> sup, sub |-> <<>>, ref |-> <<>>,
               id |-> IF id # Undef /\ id # <<>> THEN id ELSE Undef,
               payload |-> IF ptr.k = "struct" THEN PlPtr(ptr.n)
                           ELSE IF truthy THEN PlUndef
                           ELSE IF str.k = "str" THEN PlStr(str.s)
                           ELSE PlUndef,
               ptr |-> IF ptr.k = "struct" THEN PtrNone
                       ELSE IF truthy THEN (IF ptr.k = "obj" THEN PtrObj(ptr.n) ELSE PtrStr(ptr.s))
                       ELSE IF str.k = "str" THEN PtrNone
                       ELSE IF ptr.k = "undef" THEN PtrNone
                       ELSE IF ptr.k = "null" THEN PtrNull ELSE PtrStr(ptr.s)]
      F1 == [k \in 1..me |->
               IF k = me THEN node
               ELSE IF k = sup THEN [F[k] EXCEPT !.sub = Append(@, me)]
               ELSE F[k]]
  IN  IF ptr.k = "struct"
      THEN [F1 EXCEPT ![ptr.n].ref = Append(@, me)]
      ELSE F1

\* The number of superstructures above n: the level toString computes
RECURSIVE LevelOf(_, _)
LevelOf(F, n) == IF F[n].sup = 0 THEN 0 ELSE 1 + LevelOf(F, F[n].sup)

\* The top-level structures, in order
Records(F) == SelectSeq([k \in 1..Len(F) |-> k], LAMBDA k : F[k].sup = 0)

(***************************************************************************)
(* fixPtrs.  The pass state is [F, ids, used, next, log]: ids is the       *)
(* object ids (identifier -> structure index, 0 for null), used and next   *)
(* are ids[Symbol.for('used')] and ids[Symbol.for('next')].                *)
(***************************************************************************)
Msg(line, m, a, b) == [line |-> line, msg |-> m, a |-> a, b |-> b]

\* The property key a temporary pointer is looked up by (String(null) is "null")
KeyOf(ptr) == IF ptr.k = "null" THEN <<"n", "u", "l", "l">> ELSE ptr.s

Put(f, key, v) == [k \in DOMAIN f \cup {key} |-> IF k = key THEN v ELSE f[k]]

XId(m) == <<"X">> \o NumStr(m)

\* ids[next] += 1; while ('X'+ids[next] in ids) ids[next] += 1
MintNext(ids, next) ==
  CHOOSE m \in (next + 1)..(next + 1 + Cardinality(DOMAIN ids)) :
    /\ XId(m) \notin DOMAIN ids
    /\ \A k \in (next + 1)..(m - 1) : XId(k) \in DOMAIN ids

\* ResolvePtr without the push onto the target's references
ResolvePtrNoRef(S, n, logger) ==
  LET me == S.F[n]
      key == KeyOf(me.ptr)
      tgt == IF key \in DOMAIN S.ids THEN S.ids[key] ELSE 0
  IN  IF me.ptr.k # "none"
      THEN [S EXCEPT !.F = [S.F EXCEPT ![n].payload = IF tgt = 0 THEN PlNull ELSE PlPtr(tgt),
                                       ![n].ptr = PtrNone]]
      ELSE S

\* lines 276-284: the temporary pointer of structure n is resolved
ResolvePtr(S, n, logger) ==
  LET me == S.F[n]
      key == KeyOf(me.ptr)
  IN  IF me.ptr.k # "none" /\ key \in DOMAIN S.ids
      THEN LET tgt == S.ids[key]
               F1 == [S.F EXCEPT ![n].payload = IF tgt = 0 THEN PlNull ELSE PlPtr(tgt),
                                 ![n].ptr = PtrNone]
           IN  [S EXCEPT !.F = IF tgt = 0 THEN F1 ELSE [F1 EXCEPT ![tgt].ref = Append(@, n)]]
      ELSE IF me.ptr.k # "none"
      THEN [S EXCEPT !.F = [S.F EXCEPT ![n].payload = PlNull, ![n].ptr = PtrNone],
                     !.log = IF logger
                             THEN Append(@, Msg(0, "pointer to undefined xref_id", key, <<>>))
                             ELSE @]
      ELSE S

\* lines 285-297: a structure that is pointed to gets an identifier
AssignId(S, n) ==
  LET me == S.F[n]
  IN  IF Len(me.ref) > 0
      THEN IF me.id = Undef \/ me.id \in S.used
           THEN LET m == MintNext(S.ids, S.next)
                IN  [S EXCEPT !.F = [S.F EXCEPT ![n].id = XId(m)],
                              !.ids = Put(S.ids, XId(m), n),
                              !.next = m,
                              !.used = @ \cup {XId(m)}]
           ELSE [S EXCEPT !.used = @ \cup {me.id}]
      ELSE S

RECURSIVE fixPtrsEach(_, _, _)
\* line 299, for structure n of the pass state S
fixPtrsSub(S, n, logger) == fixPtrsEach(S, S.F[n].sub, logger)

\* fixPtrs(ids, logger) of structure n
fixPtrs(S, n, logger) == fixPtrsSub(AssignId(ResolvePtr(S, n, logger), n), n, logger)

\* list.forEach(e => e.fixPtrs(ids, logger))
fixPtrsEach(S, list, logger) ==
  IF list = <<>> THEN S
  ELSE fixPtrsEach(fixPtrs(S, Head(list), logger), Tail(list), logger)

VOID == <<"V", "O", "I", "D">>

CONT == <<"C", "O", "N", "T">>

CONC == <<"C", "O", "N", "C">>

(***************************************************************************)
(* GEDCStruct.fromString(input, config, logger), lines 452-534.  Positions *)
(* are 1-based, so lastidx starts at 1.  The parse state is [F, ctx, ids,  *)
(* line, last, log, thrown].                                               *)
(***************************************************************************)
\* lines 471-496: the messages of one matched line, in order
LineMessages(c, line, s, m, at, last) ==
  LET all == Sub(s, at, m.end)
      one(cond, msg, a) == IF cond THEN <<Msg(line, msg, a, <<>>)>> ELSE <<>>
  IN  one(at # last, "unable to parse", Sub(s, last, at))
      \o one(Len(m.l) > 1 /\ m.l[1] = "0", "leading zeros not permitted in level", <<>>)
      \o one(~DelimOK(c, m.d1), "invalid delimiter", m.d1)
      \o one(m.d2 # Undef /\ ~DelimOK(c, m.d2), "invalid delimiter", m.d2)
      \o one(m.d3 # Undef /\ ~DelimOK(c, m.d3), "invalid delimiter", m.d3)
      \o one(~TagOK(c, m.t), "invalid tag", m.t)
      \o one(m.i # Undef /\ ~XrefOK(c, m.i), "invalid xref_id", m.i)
      \o one(m.x # Undef /\ ~XrefOK(c, m.x), "invalid pointer", m.x)
      \o one(m.n # <<>> /\ ~LinesepOK(c, m.n), "invalid line separator", m.n)
      \o one(m.n # <<>> /\ PayloadBad(c, m.p), "invalid string payload", m.p)
      \o one(c.len > 0 /\ Len(all) > c.len, "line has too many characters", NumStr(Len(all)))

\* line 469: a payload starting @@ loses one @
Unescape(p) == IF p # Undef /\ Len(p) > 1 /\ p[1] = "@" /\ p[2] = "@" THEN Tail(p) ELSE p

IntStr(n) == IF n < 0 THEN <<"-">> \o NumStr(0 - n) ELSE NumStr(n)

\* Splice with CONT appending no newline
SpliceNoNewline(P, c, logger, m, level, line) ==
  IF level = 0
  THEN [P EXCEPT !.thrown = TRUE]
  ELSE
    LET n == P.ctx[level]
        me == P.F[n]
        p == IF Unescape(m.p) = Undef THEN <<>> ELSE Unescape(m.p)
        cur == IF me.payload.k = "undef" THEN <<>> ELSE me.payload.s
        banned == m.t = CONC /\ c.len < 0
    IN  [P EXCEPT !.F = [P.F EXCEPT ![n].payload = PlStr(IF banned THEN cur ELSE cur \o p)],
                  !.log = IF logger /\ banned
                          THEN Append(@, Msg(line, "CONC not permitted", <<>>, <<>>))
                          ELSE @]

\* lines 505-518: a CONT or CONC line at a level the context allows
Splice(P, c, logger, m, level, line) ==
  IF level = 0
  THEN [P EXCEPT !.thrown = TRUE]   \* context[-1] is undefined: TypeError
  ELSE
    LET n == P.ctx[level]
        me == P.F[n]
        p == IF Unescape(m.p) = Undef THEN <<>> ELSE Unescape(m.p)
        cur == IF me.payload.k = "undef" THEN <<>> ELSE me.payload.s
        banned == m.t = CONC /\ c.len < 0
        msgs == (IF me.payload.k = "ptr" \/ me.ptr.k # "none"
                 THEN <<Msg(line, "cannot follow pointer", m.t, <<>>)>>
                 ELSE IF Len(me.sub) > 0
                 THEN <<Msg(line, "cannot follow substructure", m.t, <<>>)>>
                 ELSE <<>>)
                \o (IF banned THEN <<Msg(line, "CONC not permitted", <<>>, <<>>)>> ELSE <<>>)
        new == IF m.t = CONT THEN cur \o <<"\n">> \o p
               ELSE IF banned THEN cur
               ELSE cur \o p
    IN  [P EXCEPT !.F = [P.F EXCEPT ![n].payload = PlStr(new)],
                  !.log = IF logger THEN @ \o msgs ELSE @]

\* lines 519-522: the line makes a structure under the context
NewStruct(P, m, level) ==
  [P EXCEPT !.F = Constructor(P.F, m.t, IF level >= 1 THEN P.ctx[level] ELSE 0,
                              ArgOf(m.x), ArgOf(Unescape(m.p)), m.i),
            !.ctx = Append(@, Len(P.F) + 1),
            !.ids = IF m.i # Undef THEN Put(@, m.i, Len(P.F) + 1) ELSE @]

\* lines 499-522: the line of level level, after its messages
ParseLevel(P, c, logger, m, level) ==
  IF level > Len(P.ctx)
  THEN [P EXCEPT !.log = IF logger
                         THEN Append(@, Msg(P.line, "level cannot follow level", NumStr(level),
                                            IntStr(Len(P.ctx) - 1)))
                         ELSE @]
  ELSE IF m.t = CONT \/ m.t = CONC
  THEN Splice([P EXCEPT !.ctx = SubSeq(P.ctx, 1, level)], c, logger, m, level, P.line)
  ELSE NewStruct([P EXCEPT !.ctx = SubSeq(P.ctx, 1, level)], m, level)

\* lines 467-523: the loop body for the match m
ParseLine(P, s, c, logger, m) ==
  ParseLevel([P EXCEPT !.line = P.line + 1, !.last = m.end,
                       !.log = IF logger
                               THEN @ \o LineMessages(c, P.line + 1, s, m, m.index, P.last)
                               ELSE @],
             c, logger, m, ToNum(m.l))

RECURSIVE ParseLoop(_, _, _, _)
\* The loop continues with the match m, or ends
ParseNext(P, s, c, logger, m) ==
  IF ~m.ok THEN P ELSE ParseLoop(ParseLine(P, s, c, logger, m), s, c, logger)

\* for (let match of input.matchAll(lre)) ...
ParseLoop(P, s, c, logger) ==
  IF P.thrown THEN P ELSE ParseNext(P, s, c, logger, NextMatch(s, P.last))

ParseStart ==
  [F |-> <<>>, ctx |-> <<>>, ids |-> [k \in {VOID} |-> 0], line |-> 0, last |-> 1,
   log |-> <<>>, thrown |-> FALSE]

\* line 524 and the return: what fromString gives for the state P of the loop
\* and the state S of the fixPtrs pass
Returned(P, S) ==
  IF P.thrown THEN [status |-> "throws", F |-> <<>>, log |-> P.log, ctx |-> <<>>]
  ELSE [status |-> "ok", F |-> S.F, log |-> S.log, ctx |-> P.ctx]

\* records.forEach(x => x.fixPtrs(ids, logger)) after the loop left P
FixAll(P, logger) ==
  Returned(P, fixPtrsEach([F |-> P.F, ids |-> P.ids, used |-> {VOID}, next |-> 0, log |-> P.log],
                          Records(P.F), logger))

\* The result is [status, F, log, ctx]: status "ok" with the forest F, or
\* "throws"; log is what the logger received; ctx is the final context.
fromString(s, c, logger) == FixAll(ParseLoop(ParseStart, s, c, logger), logger)

(***************************************************************************)
(* GEDCStruct.toString(newline, maxlen, escapes), lines 344-377.  The      *)
(* result is [status, text]: status "ok" with the text, "throws" (the      *)
(* length-limit Error) or "diverges" (the while loop never ends).          *)
(***************************************************************************)
NL == <<"\n">>

RECURSIVE SplitLines(_, _)
\* payload.split(/\r\n?|\n\r?/g); cur is the line being collected
SplitLines(s, cur) ==
  IF s = <<>> THEN <<cur>>
  ELSE IF IsEOL(s[1])
  THEN LET pair == Len(s) >= 2 /\ IsEOL(s[2]) /\ s[2] # s[1]
       IN  <<cur>> \o SplitLines(SubSeq(s, IF pair THEN 3 ELSE 2, Len(s)), <<>>)
  ELSE SplitLines(Tail(s), Append(cur, s[1]))

\* s.replace(escapes ? /^@(?!#)/ : /^@/, '@@')
EscapeLine(s, escapes) ==
  IF s # <<>> /\ s[1] = "@" /\ ~(escapes /\ At(s, 2) = "#") THEN <<"@">> \o s ELSE s

RECURSIVE Join(_, _)
\* lines.join(sep)
Join(lines, sep) ==
  IF Len(lines) = 0 THEN <<>>
  ELSE IF Len(lines) = 1 THEN lines[1]
  ELSE lines[1] \o sep \o Join(Tail(lines), sep)

StartsWith(s, i, pat) == i + Len(pat) - 1 <= Len(s) /\ SubSeq(s, i, i + Len(pat) - 1) = pat

RECURSIVE ReplaceAll(_, _, _)
\* s.replaceAll(pat, rep)
ReplaceAll(s, pat, rep) ==
  IF s = <<>> THEN <<>>
  ELSE IF StartsWith(s, 1, pat) THEN rep \o ReplaceAll(SubSeq(s, Len(pat) + 1, Len(s)), pat, rep)
  ELSE <<s[1]>> \o ReplaceAll(Tail(s), pat, rep)

\* ^ under the m flag
LineStart(s, i) == i = 1 \/ IsEOL(s[i - 1])

\* ipt = /^([^\n\r]{maxlen})([^\n\r])/m: the start of its first match in s, or 0
IptMatch(s, maxlen) ==
  LET hit(q) == /\ LineStart(s, q)
                /\ q + maxlen <= Len(s)
                /\ \A k \in q..(q + maxlen) : ~IsEOL(s[k])
  IN  IF \E q \in 1..Len(s) : hit(q)
      THEN CHOOSE q \in 1..Len(s) : hit(q) /\ \A r \in 1..(q - 1) : ~hit(r)
      ELSE 0

RECURSIVE WrapLoop(_, _, _)
\* while (ipt.test(ans)) ans = ans.replace(ipt, '$1'+pfx+'$2').  Each pass
\* starts a line pfx+'$2'...; when maxlen characters do not reach past the
\* text of pfx that line matches ipt again with the same text still to place,
\* so the loop never ends: the result is Undef.
WrapLoop(ans, maxlen, pfx) ==
  LET q == IptMatch(ans, maxlen)
  IN  IF q = 0 THEN ans
      ELSE IF maxlen <= Len(pfx) - Len(NL) THEN Undef
      ELSE WrapLoop(Sub(ans, 1, q + maxlen) \o pfx \o Sub(ans, q + maxlen, Len(ans) + 1),
                    maxlen, pfx)

RECURSIVE ConcPass(_, _, _)
\* ans.replace(escapes ? /^([0-9]+ CONC @(?!#))/gm : /^([0-9]+ CONC @)/gm, '$1@'), from position i
ConcPass(s, i, escapes) ==
  IF i > Len(s) THEN <<>>
  ELSE LET de == Span(s, i, IsDigit)
           hit == /\ LineStart(s, i) /\ de > i
                  /\ StartsWith(s, de, <<" ">> \o CONC \o <<" ", "@">>)
                  /\ ~(escapes /\ At(s, de + 7) = "#")
       IN  IF hit THEN Sub(s, i, de + 7) \o <<"@">> \o ConcPass(s, de + 7, escapes)
           ELSE <<s[i]>> \o ConcPass(s, i + 1, escapes)

\* maxlen < pfx + 1: pfx + 1 is the string pfx followed by "1", which is no
\* number, so the comparison is with NaN and is false
PfxTooLong(maxlen, pfx) == FALSE

\* `${id}` of a private #id: the text "undefined" when there is none
IdText(id) == IF id = Undef THEN <<"u", "n", "d", "e", "f", "i", "n", "e", "d">> ELSE id

\* lines 346-375: the lines of structure n itself
OwnText(F, n, maxlen, escapes) ==
  LET me == F[n]
      level == LevelOf(F, n)
      leader == NumStr(level) \o <<" ">>
                \o (IF Len(me.ref) > 0 THEN <<"@">> \o IdText(me.id) \o <<"@", " ">> ELSE <<>>)
                \o me.tag
  IN  IF me.payload.k = "ptr"
      THEN [status |-> "ok", text |-> leader \o <<" ", "@">> \o IdText(F[me.payload.n].id) \o <<"@">> \o NL]
      ELSE IF me.payload.k = "null"
      THEN [status |-> "ok", text |-> leader \o <<" ", "@">> \o VOID \o <<"@">> \o NL]
      ELSE IF me.payload.k = "undef"
      THEN [status |-> "ok", text |-> leader \o NL]
      ELSE
        LET split == SplitLines(me.payload.s, <<>>)
            lines == [k \in 1..Len(split) |-> EscapeLine(split[k], escapes)]
            cont == NL \o NumStr(level + 1) \o <<" ">> \o CONT \o <<" ">>
            ans == leader \o (IF Len(lines[1]) > 0 THEN <<" ">> ELSE <<>>)
                   \o ReplaceAll(Join(lines, cont) \o NL, CONT \o <<" ">> \o NL, CONT \o NL)
            pfx == NL \o NumStr(level + 1) \o <<" ">> \o CONC \o <<" ">>
        IN  IF maxlen > 0 /\ Len(ans) > maxlen
            THEN IF PfxTooLong(maxlen, pfx) \/ maxlen < Len(leader)
                 THEN [status |-> "throws", text |-> <<>>]
                 ELSE LET w == WrapLoop(ans, maxlen, pfx)
                      IN  IF w = Undef THEN [status |-> "diverges", text |-> <<>>]
                          ELSE [status |-> "ok", text |-> ConcPass(w, 1, escapes)]
            ELSE [status |-> "ok", text |-> ans]

RECURSIVE toString(_, _, _, _)
RECURSIVE toStringEach(_, _, _, _)
\* line 376: the structure's own lines, then its substructures'
toString(F, n, maxlen, escapes) ==
  LET own == OwnText(F, n, maxlen, escapes)
      rest == toStringEach(F, F[n].sub, maxlen, escapes)
  IN  IF own.status # "ok" THEN own
      ELSE IF rest.status # "ok" THEN rest
      ELSE [status |-> "ok", text |-> own.text \o rest.text]

\* list.map(s => s.toString(newline, maxlen, escapes)).join('')
toStringEach(F, list, maxlen, escapes) ==
  IF list = <<>> THEN [status |-> "ok", text |-> <<>>]
  ELSE LET a == toString(F, Head(list), maxlen, escapes)
           b == toStringEach(F, Tail(list), maxlen, escapes)
       IN  IF a.status # "ok" THEN a
           ELSE IF b.status # "ok" THEN b
           ELSE [status |-> "ok", text |-> a.text \o b.text]

\* line 611: the toString of a forest
GEDCToString(F) == toStringEach(F, Records(F), -1, FALSE)

(***************************************************************************)
(* toJSON and fromJSON, lines 382-393 and 544-565.  The nested objects are *)
(* held as a sequence in document order, each object with the index of the *)
(* object whose sub holds it (0 for an element of the array).  href is     *)
(* [k, s]: "undef" (no href, or undefined), "null" or "str".               *)
(***************************************************************************)
RECURSIVE toJSONEach(_, _, _, _)
\* toJSON of structure n, placed under object jsup, appended with its sub to acc
toJSON(F, n, jsup, acc) ==
  LET me == F[n]
      o == [tag |-> me.tag, sup |-> jsup,
            id |-> IF Len(me.ref) > 0 THEN me.id ELSE Undef,
            href |-> IF me.payload.k = "ptr" THEN ArgOf(F[me.payload.n].id)
                     ELSE IF me.payload.k = "null" THEN ArgNull
                     ELSE ArgUndef,
            text |-> IF me.payload.k = "str" THEN ArgStr(me.payload.s) ELSE ArgUndef]
  IN  toJSONEach(F, me.sub, Len(acc) + 1, Append(acc, o))

\* list.map(e => e.toJSON()), appended to acc
toJSONEach(F, list, jsup, acc) ==
  IF list = <<>> THEN acc
  ELSE toJSONEach(F, Tail(list), jsup, toJSON(F, Head(list), jsup, acc))

\* f.map(s => s.toJSON())
ForestToJSON(F) == toJSONEach(F, Records(F), 0, <<>>)

RECURSIVE fromJSONBuild(_, _, _)
\* lines 560-562 for the objects k.. of J: each object makes a structure under
\* the structure made from its containing object, and registers its id
fromJSONBuild(J, k, S) ==
  IF k > Len(J) THEN S
  ELSE LET o == J[k]
           F1 == Constructor(S.F, o.tag, o.sup, o.href, o.text, o.id)
       IN  fromJSONBuild(J, k + 1,
                         [S EXCEPT !.F = F1,
                                   !.ids = IF o.id # Undef /\ o.id # <<>> THEN Put(@, o.id, k) ELSE @])

\* GEDCStruct.fromJSON(array): ids starts as {} and fixPtrs runs without logger
fromJSON(J) ==
  LET S == fromJSONBuild(J, 1, [F |-> <<>>, ids |-> [k \in {} |-> 0], used |-> {VOID},
                                next |-> 0, log |-> <<>>])
  IN  fixPtrsEach(S, Records(S.F), FALSE).F

(***************************************************************************)
(* Comparing forests: document order, and the shape of a forest (what a    *)
(* round trip is to keep: tags, nesting, string payloads, pointer targets).*)
(***************************************************************************)
RECURSIVE PreOrderEach(_, _)
PreOrder(F, n) == <<n>> \o PreOrderEach(F, F[n].sub)

PreOrderEach(F, list) ==
  IF list = <<>> THEN <<>> ELSE PreOrder(F, Head(list)) \o PreOrderEach(F, Tail(list))

DocOrder(F) == PreOrderEach(F, Records(F))

PosIn(seq, n) == CHOOSE k \in 1..Len(seq) : seq[k] = n

Shape(F) ==
  LET doc == DocOrder(F)
  IN  [k \in 1..Len(doc) |->
         LET me == F[doc[k]]
         IN  [tag |-> me.tag, level |-> LevelOf(F, doc[k]),
              payload |-> IF me.payload.k = "ptr" THEN PlPtr(PosIn(doc, me.payload.n))
                          ELSE me.payload]]

(***************************************************************************)
(* Bounds of the model and the inputs drawn within them.                   *)
(***************************************************************************)
\* structures a caller builds
MaxNodes == 3

\* structures of a forest that is serialized with a caller's own len
MaxWrapNodes == 1

\* characters of a string payload: up to MaxPad times "x", then up to MaxTail
\* characters of PChars
MaxPad == 4

MaxTail == 2

\* lines of an input text
MaxLines == 3

PChars == {"x", "@", "#", " ", "\n"}

Pad(k) == [i \in 1..k |-> "x"]

Payloads == {Pad(k) \o t : k \in 0..MaxPad, t \in UNION {[1..m -> PChars] : m \in 0..MaxTail}}

BuildTags == <<<<"A">>, <<"B">>, <<"C">>, <<"D">>>>

BuildIds == {Undef, <<"I">>, <<"J">>}

\* line lengths a caller asks toString for, besides the presets'
WrapLens == {2, 5, 8, 9}

Configs ==
  {g7ConfGEDC, g5ConfGEDC} \cup {[d |-> "g5", len |-> n, escapes |-> e] : n \in WrapLens, e \in BOOLEAN}

RECURSIVE AncestorsOrSelf(_, _)
AncestorsOrSelf(F, n) == IF n = 0 THEN {} ELSE {n} \cup AncestorsOrSelf(F, F[n].sup)

\* A line of input text: [k, lvl, id, tag, pl, s].  k = "line": level lvl, the
\* identifier id (or Undef), the tag, and pl, the text after the tag (or
\* Undef), written with single spaces and a line feed; k = "raw": the
\* characters s as they are.
Line(lvl, id, tag, pl) == [k |-> "line", lvl |-> lvl, id |-> id, tag |-> tag, pl |-> pl, s |-> <<>>]

Raw(s) == [k |-> "raw", lvl |-> 0, id |-> Undef, tag |-> <<>>, pl |-> Undef, s |-> s]

InputLines ==
  << Line(0, Undef, <<"A">>, Undef),
     Line(0, Undef, <<"A">>, <<"x">>),
     Line(0, <<"I">>, <<"A">>, Undef),
     Line(0, VOID, <<"A">>, Undef),
     Line(1, Undef, <<"B">>, Undef),
     Line(1, <<"I">>, <<"B">>, <<"x">>),
     Line(1, Undef, <<"B">>, <<"@", "I", "@">>),
     Line(1, Undef, <<"B">>, <<"@">> \o VOID \o <<"@">>),
     Line(1, Undef, <<"B">>, <<"@", "J", "@">>),
     Line(1, Undef, CONT, <<"y">>),
     Line(1, Undef, CONC, <<"z">>),
     Line(0, Undef, CONT, <<"y">>),
     Line(2, Undef, CONT, <<"@", "@", "y">>),
     Line(2, Undef, <<"B">>, <<"x">>),
     Raw(<<"?", "\n">>) >>

RenderLine(ln) ==
  IF ln.k = "raw" THEN ln.s
  ELSE NumStr(ln.lvl) \o <<" ">>
       \o (IF ln.id # Undef THEN <<"@">> \o ln.id \o <<"@", " ">> ELSE <<>>)
       \o ln.tag
       \o (IF ln.pl # Undef THEN <<" ">> \o ln.pl ELSE <<>>)
       \o NL

\* The input text: the lines one after the other
Render(lines) == Flatten([k \in 1..Len(lines) |-> RenderLine(lines[k])])

NoText == [status |-> "none", text |-> <<>>]

NoParse == [status |-> "none", F |-> <<>>, log |-> <<>>, ctx |-> <<>>]

(***************************************************************************)
(* Spec: a caller builds a forest with the constructor, in document order, *)
(* and either serializes it and parses the text, or takes it through JSON. *)
(***************************************************************************)
Init ==
  /\ pc = "build" /\ cfg = g7ConfGEDC /\ built = <<>> /\ input = <<>>
  /\ text = NoText /\ parsed = NoParse /\ json = <<>> /\ copy = <<>>
  /\ arg = <<>> /\ res = <<>>

\* new GEDCStruct(tag, sup, ptr, str, id): a structure with a string payload
\* (as the first structure, or under a first structure without payload)
ConstructText ==
  /\ pc = "build"
  /\ \/ built = <<>>
     \/ Len(built) = 1 /\ built[1].payload.k = "undef" /\ built[1].id = Undef
  /\ \E s \in Payloads :
       built' = Constructor(built, BuildTags[Len(built) + 1], Len(built), ArgUndef, ArgStr(s), Undef)
  /\ UNCHANGED <<pc, cfg, input, text, parsed, json, copy, arg, res>>

\* new GEDCStruct(tag, sup, ptr, undefined, id): a structure without payload,
\* with the null pointer or with a pointer to a structure built before
ConstructPtr ==
  /\ pc = "build"
  /\ Len(built) < MaxNodes
  /\ \A k \in 1..Len(built) : built[k].payload.k # "str"
  /\ \E sup \in {0} \cup AncestorsOrSelf(built, Len(built)),
        ptr \in {ArgUndef, ArgNull} \cup {ArgStruct(j) : j \in 1..Len(built)},
        id \in BuildIds :
       built' = Constructor(built, BuildTags[Len(built) + 1], sup, ptr, ArgUndef, id)
  /\ UNCHANGED <<pc, cfg, input, text, parsed, json, copy, arg, res>>

\* records.map(r => r.toString('\n', c.len, c.escapes)).join('')
Serialize ==
  /\ pc = "build" /\ built # <<>>
  /\ \E c \in Configs :
       /\ c \in {g7ConfGEDC, g5ConfGEDC} \/ Len(built) <= MaxWrapNodes
       /\ cfg' = c
       /\ text' = toStringEach(built, Records(built), c.len, c.escapes)
  /\ pc' = "serialized"
  /\ UNCHANGED <<built, input, parsed, json, copy, arg, res>>

\* GEDCStruct.fromString(text, cfg, logger)
Parse ==
  /\ pc = "serialized" /\ text.status = "ok"
  /\ parsed' = fromString(text.text, cfg, TRUE)
  /\ pc' = "parsed"
  /\ UNCHANGED <<cfg, built, input, text, json, copy, arg, res>>

\* built.map(s => s.toJSON())
BuiltToJSON ==
  /\ pc = "build" /\ built # <<>>
  /\ json' = ForestToJSON(built)
  /\ pc' = "json"
  /\ UNCHANGED <<cfg, built, input, text, parsed, copy, arg, res>>

\* GEDCStruct.fromJSON(json)
FromJSON ==
  /\ pc = "json"
  /\ copy' = fromJSON(json)
  /\ pc' = "copied"
  /\ UNCHANGED <<cfg, built, input, text, parsed, json, arg, res>>

Next == ConstructText \/ ConstructPtr \/ Serialize \/ Parse \/ BuiltToJSON \/ FromJSON

Spec == Init /\ [][Next]_vars

(***************************************************************************)
(* SpecText: a caller hands a text to fromString, and serializes the       *)
(* forest it returns or takes it through JSON.                             *)
(***************************************************************************)
InitText ==
  /\ pc = "compose" /\ cfg \in {g7ConfGEDC, g5ConfGEDC} /\ built = <<>> /\ input = <<>>
  /\ text = NoText /\ parsed = NoParse /\ json = <<>> /\ copy = <<>>
  /\ arg = <<>> /\ res = <<>>

\* The caller's text grows by a line
AddLine ==
  /\ pc = "compose" /\ Len(input) < MaxLines
  /\ \E k \in 1..Len(InputLines) : input' = Append(input, InputLines[k])
  /\ UNCHANGED <<pc, cfg, built, text, parsed, json, copy, arg, res>>

\* GEDCStruct.fromString(input, cfg, logger)
ParseInput ==
  /\ pc = "compose" /\ input # <<>>
  /\ parsed' = fromString(Render(input), cfg, TRUE)
  /\ pc' = "parsed"
  /\ UNCHANGED <<cfg, built, input, text, json, copy, arg, res>>

\* records.toString(): GEDCToString
Reserialize ==
  /\ pc = "parsed" /\ parsed.status = "ok"
  /\ text' = GEDCToString(parsed.F)
  /\ pc' = "reserialized"
  /\ UNCHANGED <<cfg, built, input, parsed, json, copy, arg, res>>

\* records.map(s => s.toJSON())
ParsedToJSON ==
  /\ pc = "parsed" /\ parsed.status = "ok"
  /\ json' = ForestToJSON(parsed.F)
  /\ pc' = "json"
  /\ UNCHANGED <<cfg, built, input, text, parsed, copy, arg, res>>

NextText == AddLine \/ ParseInput \/ Reserialize \/ ParsedToJSON \/ FromJSON

SpecText == InitText /\ [][NextText]_vars

(***************************************************************************)
(* querySelectorAll and querySelector.  A path is a text; idxs is a set of *)
(* 0-based positions in it.                                                *)
(***************************************************************************)
\* path[i] of a string, 0-based ("<end>" stands for undefined)
CharAt(path, i) == At(path, i + 1)

RECURSIVE IndexOf(_, _, _)
\* String.prototype.indexOf(c, from), 0-based, -1 when c does not occur
IndexOf(path, c, from) ==
  IF from >= Len(path) THEN -1
  ELSE IF CharAt(path, from) = c THEN from
  ELSE IndexOf(path, c, from + 1)

\* String.prototype.substring(a, next), next = -1 standing for undefined
Substring(path, a, next) == Sub(path, a + 1, (IF next = -1 THEN Len(path) ELSE next) + 1)

\* let next = path.indexOf('.', i+1)
QsNext(path, i) == IndexOf(path, ".", i + 1)

\* let want = path.substring(i + (path[i] === '.'), next)
QsWant(path, i) ==
  Substring(path, i + (IF CharAt(path, i) = "." THEN 1 ELSE 0), QsNext(path, i))

\* The position a match at i hands to the substructures: every position
\* (the descendants axis of the mutant below)
QsAdvanceDeep(path, next) == next + 2

\* next + 2*(path[next+1] == '.')
QsAdvance(path, next) == next + 2 * (IF CharAt(path, next + 1) = "." THEN 1 ELSE 0)

\* How many times the loop over idxs executes "yield this"
QsYields(F, n, path, idxs) ==
  Cardinality({i \in idxs : QsWant(path, i) = F[n].tag /\ QsNext(path, i) = -1})

\* nextIdxs after the loop over idxs
QsNextIdxs(F, n, path, idxs) ==
  {i \in idxs : CharAt(path, i) # "."}
  \cup {QsAdvance(path, QsNext(path, i)) :
          i \in {j \in idxs : QsWant(path, j) = F[n].tag /\ QsNext(path, j) # -1}}

RECURSIVE querySelectorAll(_, _, _, _)
RECURSIVE querySelectorAllSub(_, _, _, _)
\* GEDCStruct.querySelectorAll(path, idxs): the structures yielded, in order
querySelectorAll(F, n, path, idxs) ==
  [k \in 1..QsYields(F, n, path, idxs) |-> n]
  \o querySelectorAllSub(F, F[n].sub, path, QsNextIdxs(F, n, path, idxs))

\* if (nextIdxs.size > 0) for(let e of this.sub) yield* e.querySelectorAll(path, nextIdxs)
querySelectorAllSub(F, list, path, nextIdxs) ==
  IF nextIdxs = {} \/ list = <<>> THEN <<>>
  ELSE querySelectorAll(F, Head(list), path, nextIdxs)
       \o querySelectorAllSub(F, Tail(list), path, nextIdxs)

RECURSIVE GEDCQuerySelectorAllEach(_, _, _)
GEDCQuerySelectorAllEach(F, list, path) ==
  IF list = <<>> THEN <<>>
  ELSE querySelectorAll(F, Head(list), path, {0})
       \o GEDCQuerySelectorAllEach(F, Tail(list), path)

\* records.querySelectorAll(path): for(let e of this) yield* e.querySelectorAll(path)
GEDCQuerySelectorAll(F, path) == GEDCQuerySelectorAllEach(F, Records(F), path)

\* The value of generator.next().value: the structure, or 0 for undefined
NextValue(seq) == IF seq = <<>> THEN 0 ELSE Head(seq)

\* records.querySelector(path)
GEDCQuerySelector(F, path) == NextValue(GEDCQuerySelectorAll(F, path))

(***************************************************************************)
(* SpecQuery: a caller parses a text of structures without payload and     *)
(* queries the forest with a dot path.                                     *)
(***************************************************************************)
MaxQLines == 3
MaxSegs == 3
MaxQLevel == 2

PathTags == {<<"A">>, <<"A", "B">>}

\* A path as its writer means it: top says it starts with '.', segs[k].deep
\* says that segment k follows '..' rather than '.'
PathSegs == [tag : PathTags, deep : BOOLEAN]

Paths ==
  {d \in [top : BOOLEAN, segs : UNION {[1..n -> PathSegs] : n \in 1..MaxSegs}] :
     ~d.segs[1].deep}

RECURSIVE PathTail(_, _)
PathTail(segs, k) ==
  IF k > Len(segs) THEN <<>>
  ELSE (IF segs[k].deep THEN <<".", ".">> ELSE <<".">>) \o segs[k].tag \o PathTail(segs, k + 1)

\* The text of a path
PathText(d) == (IF d.top THEN <<".">> ELSE <<>>) \o d.segs[1].tag \o PathTail(d.segs, 2)

QueryLines == {Line(lvl, Undef, tag, Undef) : lvl \in 0..MaxQLevel, tag \in PathTags}

NoQuery == <<>>

InitQuery ==
  /\ pc = "compose" /\ cfg = g7ConfGEDC /\ built = <<>> /\ input = <<>>
  /\ text = NoText /\ parsed = NoParse /\ json = <<>> /\ copy = <<>>
  /\ arg = NoQuery /\ res = <<>>

\* The caller's text grows by a line
AddQueryLine ==
  /\ pc = "compose" /\ Len(input) < MaxQLines
  /\ \E ln \in QueryLines : input' = Append(input, ln)
  /\ UNCHANGED <<pc, cfg, built, text, parsed, json, copy, arg, res>>

\* records.querySelectorAll(path), run to the end
QuerySelectorAll ==
  /\ pc = "parsed" /\ parsed.status = "ok"
  /\ \E d \in Paths :
       /\ arg' = d
       /\ res' = GEDCQuerySelectorAll(parsed.F, PathText(d))
  /\ pc' = "queriedAll"
  /\ UNCHANGED <<cfg, built, input, text, parsed, json, copy>>

\* records.querySelector(path)
QuerySelector ==
  /\ pc = "parsed" /\ parsed.status = "ok"
  /\ \E d \in Paths :
       /\ arg' = d
       /\ res' = GEDCQuerySelector(parsed.F, PathText(d))
  /\ pc' = "queried"
  /\ UNCHANGED <<cfg, built, input, text, parsed, json, copy>>

NextQuery == AddQueryLine \/ ParseInput \/ QuerySelectorAll \/ QuerySelector

SpecQuery == InitQuery /\ [][NextQuery]_vars

(***************************************************************************)
(* The typed layer: G7Lookups, G7Structure and G7Dataset.                  *)
(* A text is a sequence of characters, a structure type is the text of a   *)
(* URI (it holds ':') or of a tag; "v:" abbreviates the prefix             *)
(* https://gedcom.io/terms/v7/ of the registry's URIs.                     *)
(***************************************************************************)
HEAD == <<"H", "E", "A", "D">>
GEDC == <<"G", "E", "D", "C">>
VERS == <<"V", "E", "R", "S">>
SCHMA == <<"S", "C", "H", "M", "A">>
TAG == <<"T", "A", "G">>
TRLR == <<"T", "R", "L", "R">>
INDI == <<"I", "N", "D", "I">>
EXID == <<"E", "X", "I", "D">>
TYPE == <<"T", "Y", "P", "E">>
ASSO == <<"A", "S", "S", "O">>
SEX == <<"S", "E", "X">>
AGE == <<"A", "G", "E">>

\* The URI https://gedcom.io/terms/v7/<name>
V(name) == <<"v", ":">> \o name

\* String.prototype.includes(c)
Includes(s, c) == \E k \in 1..Len(s) : s[k] = c

\* s[0] of a string ("<end>" stands for undefined)
First(s) == At(s, 1)

One == <<"{", "1", ":", "1", "}">>
Opt == <<"{", "0", ":", "1", "}">>
Many == <<"{", "0", ":", "M", "}">>

\* An entry of g7.substructure[uri]: tag -> {type, cardinality}
Entry(tag, type, cardinality) == [tag |-> tag, type |-> type, cardinality |-> cardinality]

\* g7.substructure of the registry the lookups wrap: the entries of each
\* container in the order of the registry, <<>> for a structure type
\* without substructures ('' is the container of the records)
g7substructure ==
  [u \in {<<>>, V(HEAD), V(GEDC), V(GEDC \o <<"-">> \o VERS), V(SCHMA), V(TAG), V(INDI),
          V(EXID), V(EXID \o <<"-">> \o TYPE), V(ASSO), V(SEX), V(AGE)} |->
     IF u = <<>> THEN <<Entry(HEAD, V(HEAD), One), Entry(INDI, V(INDI), Many)>>
     ELSE IF u = V(HEAD) THEN <<Entry(GEDC, V(GEDC), One), Entry(SCHMA, V(SCHMA), Opt)>>
     ELSE IF u = V(GEDC) THEN <<Entry(VERS, V(GEDC \o <<"-">> \o VERS), One)>>
     ELSE IF u = V(SCHMA) THEN <<Entry(TAG, V(TAG), Many)>>
     ELSE IF u = V(INDI)
       THEN <<Entry(EXID, V(EXID), Many), Entry(ASSO, V(ASSO), Many), Entry(SEX, V(SEX), Opt)>>
     ELSE IF u = V(EXID) THEN <<Entry(TYPE, V(EXID \o <<"-">> \o TYPE), Opt)>>
     ELSE <<>>]

\* A payload type definition: {type, to}
PlType(type, to) == [type |-> type, to |-> to]

\* A pltype argument that is missing or false
NoPlType == PlType(<<>>, <<>>)

TNull == <<"n", "u", "l", "l">>
TPointer == <<"p", "o", "i", "n", "t", "e", "r">>
TString == <<"x", "s", "d", ":", "s", "t", "r", "i", "n", "g">>
TAny == <<"?">>
TAge == V(<<"t", "y", "p", "e", "-", "A", "g", "e">>)

\* g7.payload of the registry
g7payload ==
  [u \in DOMAIN g7substructure \ {<<>>} |->
     IF u \in {V(HEAD), V(GEDC), V(SCHMA), V(INDI)} THEN PlType(TNull, <<>>)
     ELSE IF u = V(ASSO) THEN PlType(TPointer, V(INDI))
     ELSE IF u = V(AGE) THEN PlType(TAge, <<>>)
     ELSE PlType(TString, <<>>)]

\* g7.tag of the registry: the tag of a URI
g7tag ==
  [u \in DOMAIN g7payload |->
     IF u = V(GEDC \o <<"-">> \o VERS) THEN VERS
     ELSE IF u = V(EXID \o <<"-">> \o TYPE) THEN TYPE
     ELSE SubSeq(u, 3, Len(u))]

\* Does g7.substructure[uri] have the key tag, and its entry
HasEntry(uri, tag) == \E k \in 1..Len(g7substructure[uri]) : g7substructure[uri][k].tag = tag

EntryOf(uri, tag) ==
  g7substructure[uri][CHOOSE k \in 1..Len(g7substructure[uri]) : g7substructure[uri][k].tag = tag]

\* g7.substructure[uri][alias]: the entries by type
HasAlias(uri, type) == \E k \in 1..Len(g7substructure[uri]) : g7substructure[uri][k].type = type

AliasOf(uri, type) ==
  g7substructure[uri][CHOOSE k \in 1..Len(g7substructure[uri]) : g7substructure[uri][k].type = type]

\* g7[reloc]: the URIs with a payload definition and a standard tag, by tag,
\* in the order of g7.payload
RelocOf(tag) ==
  SelectSeq(<<V(HEAD), V(GEDC), V(GEDC \o <<"-">> \o VERS), V(SCHMA), V(TAG), V(INDI), V(EXID),
              V(EXID \o <<"-">> \o TYPE), V(ASSO), V(SEX)>>,
            LAMBDA u : g7tag[u] = tag /\ First(g7tag[u]) # "_")

(***************************************************************************)
(* The state of a G7Lookups: ext (tag -> URIs) and extTag (URI -> tag),    *)
(* the messages already delivered once, the identifiers handed out, and    *)
(* log, the messages delivered to the err and warn sinks.                  *)
(***************************************************************************)
NewLookups ==
  [ext |-> <<>>, extTag |-> <<>>, olderr |-> {}, oldwarn |-> {},
   unique |-> FALSE, usedIDs |-> {}, nextID |-> 0, log |-> <<>>]

\* A message: the sink, the prefix a wrapped sink puts before it, the
\* template and its parameters
LMsg(sink, pfx, m, a) == [sink |-> sink, pfx |-> pfx, msg |-> m, a |-> a]

\* this.err?.(msg)
LErr(L, m, a) == [L EXCEPT !.log = Append(@, LMsg("err", <<>>, m, a))]

\* this.warn?.(msg)
LWarn(L, m, a) == [L EXCEPT !.log = Append(@, LMsg("warn", <<>>, m, a))]

\* #err(msg)
LErrOnce(L, m, a) ==
  IF <<m, a>> \in L.olderr THEN L ELSE LErr([L EXCEPT !.olderr = @ \cup {<<m, a>>}], m, a)

\* #warn(msg)
LWarnOnce(L, m, a) ==
  IF <<m, a>> \in L.oldwarn THEN L ELSE LWarn([L EXCEPT !.oldwarn = @ \cup {<<m, a>>}], m, a)

unreg(L, a) == LWarnOnce(LWarnOnce(L, "Register extensions", <<>>), "Unregistered extension", a)

undoc(L, a) == LWarnOnce(LWarnOnce(L, "Document extensions", <<>>), "Undocumented extension", a)

ambig(L, a, asWarning) ==
  IF asWarning THEN LWarnOnce(L, "Ambiguous", a) ELSE LErrOnce(L, "Ambiguous", a)

aliased(L, a) == LWarnOnce(L, "Aliased", a)

\* A value returned together with the lookups' new state
Ret(L, v) == [L |-> L, v |-> v]

ExtHas(L, tag) == tag \in DOMAIN L.ext

\* /_[A-Z0-9_]+/.test(tag)
ExtTagOK(tag) ==
  \E k \in 1..(Len(tag) - 1) : tag[k] = "_" /\ IsWord7(tag[k + 1])

\* addExtension(tag, uri)
addExtension(L, tag, uri) ==
  IF ~ExtTagOK(tag) THEN LErrOnce(L, "Malformed extension tag", <<tag>>)
  ELSE IF ~Includes(uri, ":") THEN LErrOnce(L, "Malformed URI", <<uri>>)
  ELSE IF ExtHas(L, tag) /\ \E k \in 1..Len(L.ext[tag]) : L.ext[tag][k] = uri THEN L
  ELSE IF uri \in DOMAIN L.extTag
    THEN LWarn([L EXCEPT !.ext = Put(@, tag, (IF ExtHas(L, tag) THEN L.ext[tag] ELSE <<>>) \o <<uri>>)],
               "New tag superceded", <<tag, L.extTag[uri], uri>>)
  ELSE [L EXCEPT !.ext = Put(@, tag, (IF ExtHas(L, tag) THEN L.ext[tag] ELSE <<>>) \o <<uri>>),
                 !.extTag = Put(@, uri, tag)]

\* MiscFind with a tag registered for one URI reported as undocumented
MiscFindUndocumented(L, tag, prefix, ambigWarn) ==
  IF ~ExtHas(L, tag) THEN Ret(undoc(L, <<prefix, tag>>), tag)
  ELSE IF Len(L.ext[tag]) = 1 THEN Ret(undoc(L, <<prefix, L.ext[tag][1]>>), L.ext[tag][1])
  ELSE Ret(ambig(L, <<prefix, tag, L.ext[tag]>>, ambigWarn), tag)

\* The second half of misc, after the check of the tag
MiscFind(L, tag, prefix, ambigWarn) ==
  IF ~ExtHas(L, tag) THEN Ret(undoc(L, <<prefix, tag>>), tag)
  ELSE IF Len(L.ext[tag]) = 1 THEN Ret(unreg(L, <<prefix, L.ext[tag][1]>>), L.ext[tag][1])
  ELSE Ret(ambig(L, <<prefix, tag, L.ext[tag]>>, ambigWarn), tag)

\* misc(tag, prefix, ambigWarn)
misc(L, tag, prefix, ambigWarn) ==
  MiscFind(IF First(tag) # "_" /\ ~Includes(tag, ":")
           THEN LErrOnce(L, "cannot be used as", <<tag, prefix>>) ELSE L,
           tag, prefix, ambigWarn)

\* payload(uri)
lookupPayload(uri) == IF uri \in DOMAIN g7payload THEN g7payload[uri] ELSE PlType(TAny, <<>>)

\* tag(uri, extFirst)
lookupTag(L, uri, extFirst) ==
  IF extFirst
  THEN (IF uri \in DOMAIN L.extTag /\ L.extTag[uri] # <<>> THEN L.extTag[uri]
        ELSE IF uri \in DOMAIN g7tag THEN g7tag[uri] ELSE uri)
  ELSE (IF uri \in DOMAIN g7tag THEN g7tag[uri]
        ELSE IF uri \in DOMAIN L.extTag /\ L.extTag[uri] # <<>> THEN L.extTag[uri] ELSE uri)

\* An unknown substructure: {cardinality: '{0:M}', type}
AnyEntry(tag, r) == Ret(r.L, Entry(tag, r.v, Many))

\* substructure(uri, tag) when uri is not a container of the registry
SubstructureUnknown(L, uri, tag) ==
  IF First(tag) # "_"
  THEN Ret(IF RelocOf(tag) = <<>> THEN LWarnOnce(L, "Extension-defined with novel tag", <<uri, tag>>)
           ELSE IF Len(RelocOf(tag)) = 1
             THEN unreg(L, <<"defined", uri, tag, RelocOf(tag)[1]>>)
           ELSE IF uri # <<>>
                   /\ Len(SelectSeq(RelocOf(tag), LAMBDA u : ~HasAlias(<<>>, u))) = 1
             THEN unreg(L, <<"defined", uri, tag,
                             SelectSeq(RelocOf(tag), LAMBDA u : ~HasAlias(<<>>, uri))[1]>>)
           ELSE ambig(L, <<"extension-defined substructure", tag, RelocOf(tag)>>, TRUE),
           Entry(tag, tag, Many))
  ELSE AnyEntry(tag, misc(L, tag, uri, FALSE))

RECURSIVE SubstructureFound(_, _, _, _, _)
\* The loop over this.#ext.get(tag): [L, v], v the URI found or <<>> for false
SubstructureFound(L, uri, tag, uris, found) ==
  IF uris = <<>> THEN Ret(L, found)
  ELSE IF Head(uris) \in {g7substructure[uri][k].tag : k \in 1..Len(g7substructure[uri])}
          \/ HasAlias(uri, Head(uris))
    THEN (IF found # <<>> /\ found # Head(uris)
          THEN SubstructureFound(ambig(L, <<uri, tag, found, Head(uris)>>, FALSE),
                                 uri, tag, Tail(uris), found)
          ELSE SubstructureFound(L, uri, tag, Tail(uris), Head(uris)))
  ELSE SubstructureFound(L, uri, tag, Tail(uris), found)

\* The end of substructure: the entry found through the extensions, or misc
SubstructureExt(uri, tag, r) ==
  IF r.v # <<>>
  THEN (IF HasEntry(uri, r.v) THEN Ret(r.L, EntryOf(uri, r.v))
        ELSE Ret(aliased(r.L, <<uri, r.v, tag>>), AliasOf(uri, r.v)))
  ELSE AnyEntry(tag, misc(r.L, tag, uri, TRUE))

\* substructure(uri, tag): [L, v] with v the entry {type, cardinality}
substructure(L, uri, tag) ==
  IF uri \notin DOMAIN g7substructure THEN SubstructureUnknown(L, uri, tag)
  ELSE IF HasEntry(uri, tag) THEN Ret(L, EntryOf(uri, tag))
  ELSE SubstructureExt(uri, tag,
         SubstructureFound(
           IF First(tag) # "_" /\ uri \in DOMAIN g7tag /\ First(g7tag[uri]) # "_"
           THEN LErrOnce(L, "Prohibited", <<uri, tag>>) ELSE L,
           uri, tag, IF ExtHas(L, tag) THEN L.ext[tag] ELSE <<>>, <<>>))

\* uniqueID(id), id = <<>> for a call without argument
uniqueID(L, id) ==
  LET fresh == CHOOSE m \in L.nextID..(L.nextID + Cardinality(L.usedIDs)) :
                 /\ NumStr(m) \notin L.usedIDs
                 /\ \A k \in L.nextID..(m - 1) : NumStr(k) \in L.usedIDs
  IN  IF id = <<>> \/ id \in L.usedIDs
      THEN Ret([L EXCEPT !.usedIDs = @ \cup {NumStr(fresh)}, !.nextID = fresh + 1], NumStr(fresh))
      ELSE Ret([L EXCEPT !.usedIDs = @ \cup {id}], id)

(***************************************************************************)
(* G7Structure and G7Dataset.  The typed structures live in an arena T;    *)
(* a structure is [type, payload, sup, sub, ref, id, xref] with sub the    *)
(* Map of its substructures (a sequence of [type, list] in insertion       *)
(* order), sup 0 for a record.  A payload is [k, s, n]: "undef", "null",   *)
(* "str" (the text s), "gedc" (the tag-layer structure n), "rec" (the      *)
(* typed structure n).  The state of a run is [L, T, header, records, v,   *)
(* thrown]: the lookups, the arena, the dataset's header (0 if none) and   *)
(* its records Map, the value last returned and the exception thrown.      *)
(***************************************************************************)
TUndef == [k |-> "undef", s |-> <<>>, n |-> 0]

TNullPtr == [k |-> "null", s |-> <<>>, n |-> 0]

TStr(s) == [k |-> "str", s |-> s, n |-> 0]

TGedc(n) == [k |-> "gedc", s |-> <<>>, n |-> n]

TRec(n) == [k |-> "rec", s |-> <<>>, n |-> n]

\* A G7Age as payload: s holds its fields
TAgeValue(a) == [k |-> "age", s |-> a, n |-> 0]

\* The payload of a tag-layer structure as the typed layer receives it
GedcPayload(pl) ==
  IF pl.k = "ptr" THEN TGedc(pl.n)
  ELSE IF pl.k = "null" THEN TNullPtr
  ELSE IF pl.k = "str" THEN TStr(pl.s)
  ELSE TUndef

\* The truth value of a payload
Truthy(pl) == pl.k \in {"gedc", "rec", "age", "obj"} \/ (pl.k = "str" /\ pl.s # <<>>)

MapHas(m, key) == \E k \in 1..Len(m) : m[k].type = key

MapGet(m, key) == m[CHOOSE k \in 1..Len(m) : m[k].type = key].list

\* if (m.has(key)) m.get(key).push(x); else m.set(key, [x])
MapPush(m, key, x) ==
  IF MapHas(m, key)
  THEN [k \in 1..Len(m) |-> IF m[k].type = key THEN [m[k] EXCEPT !.list = Append(@, x)] ELSE m[k]]
  ELSE Append(m, [type |-> key, list |-> <<x>>])

\* The structures of a Map, list after list
RECURSIVE MapValues(_)
MapValues(m) == IF m = <<>> THEN <<>> ELSE Head(m).list \o MapValues(Tail(m))

NewState(L) == [L |-> L, T |-> <<>>, header |-> 0, records |-> <<>>, v |-> 0, thrown |-> "no"]

\* lookup.err?.(msg) while createSubstructure or createRecord wraps the sink
LErrIn(L, pfx, m, a) == [L EXCEPT !.log = Append(@, LMsg("err", pfx, m, a))]

(***************************************************************************)
(* The datatypes of g7datatypes: G7Age, G7Time, G7Date and G7DateValue.    *)
(* A payload is a string; a parsed value is a record of its fields, where  *)
(* a number is Num(n) or NoNum (undefined) and a string is a string or     *)
(* Undef. Each constructor returns the value with the lookups' new state.  *)
(***************************************************************************)
Num(n) == [def |-> TRUE, n |-> n]

NoNum == [def |-> FALSE, n |-> 0]

\* m ? Number(m) : undefined, and m && Number(m), of a group of digits
NumOf(m) == IF m = Undef THEN NoNum ELSE Num(ToNum(m))

RECURSIVE NumString(_)
\* String(n) of a non-negative integer
NumString(n) == IF n < 10 THEN <<Digits[n + 1]>> ELSE NumString(n \div 10) \o <<Digits[(n % 10) + 1]>>

RECURSIVE TrimLeft(_)
TrimLeft(s) == IF s # <<>> /\ IsWSpace(s[1]) THEN TrimLeft(Tail(s)) ELSE s

RECURSIVE TrimRight(_)
TrimRight(s) ==
  IF s # <<>> /\ IsWSpace(s[Len(s)]) THEN TrimRight(SubSeq(s, 1, Len(s) - 1)) ELSE s

\* String.prototype.trim()
Trim(s) == TrimRight(TrimLeft(s))

AgeUnits == <<"y", "m", "w", "d">>

\* (?:([0-9]+)u(?: |$))? at position p (without the (?: |$) when sep is
\* false): the position after the group, 0 when the group matches nothing
AgeGroupEnd(s, q, sep) ==
  IF ~sep THEN q + 1
  ELSE IF At(s, q + 1) = " " THEN q + 2
  ELSE IF q = Len(s) THEN q + 1
  ELSE 0

AgeGroup(s, p, q, u, sep) == IF q > p /\ At(s, q) = u THEN AgeGroupEnd(s, q, sep) ELSE 0

RECURSIVE AgeGroups(_, _, _, _)
\* The four groups of units from position p on: where they end and what
\* they captured. A group that cannot match is skipped; since each unit has
\* its own letter, no other way of matching exists.
AgeGroups(s, p, k, m) ==
  IF k > Len(AgeUnits) THEN [end |-> p, m |-> m]
  ELSE IF AgeGroup(s, p, Span(s, p, IsDigit), AgeUnits[k], k < Len(AgeUnits)) = 0
    THEN AgeGroups(s, p, k + 1, Append(m, Undef))
  ELSE AgeGroups(s, AgeGroup(s, p, Span(s, p, IsDigit), AgeUnits[k], k < Len(AgeUnits)),
                 k + 1, Append(m, Sub(s, p, Span(s, p, IsDigit))))

AgeMatched(s, g) == IF g.end = Len(s) + 1 THEN g.m ELSE <<>>

\* /^(?:([<>]))?(?:([0-9]+)y(?: |$))?(?:([0-9]+)m(?: |$))?(?:([0-9]+)w(?: |$))?(?:([0-9]+)d)?$/.exec(s):
\* the groups m[1..5], or <<>> for null
AgeExec(s) ==
  AgeMatched(s, IF At(s, 1) \in {"<", ">"} THEN AgeGroups(s, 2, 1, <<<<s[1]>>>>)
                ELSE AgeGroups(s, 1, 1, <<Undef>>))

AgeOf(mod, years, months, weeks, days) ==
  [mod |-> mod, years |-> years, months |-> months, weeks |-> weeks, days |-> days]

G7AgeOfMatch(L, payload, m) ==
  IF m = <<>> \/ \A k \in 2..5 : m[k] = Undef
  THEN Ret(LErrIn(L, <<>>, "Invalid age", <<payload>>), AgeOf(<<">">>, Num(0), NoNum, NoNum, NoNum))
  ELSE Ret(L, AgeOf(m[1], NumOf(m[2]), NumOf(m[3]), NumOf(m[4]), NumOf(m[5])))

\* new G7Age(payload, lookup) of a string
G7Age(L, payload) ==
  IF payload = <<>> THEN Ret(L, AgeOf(Undef, NoNum, NoNum, NoNum, NoNum))
  ELSE G7AgeOfMatch(L, payload, AgeExec(payload))

\* if (this.years) ans += this.years+'y ': undefined and 0 add nothing
AgePart(n, u) == IF n.def /\ n.n # 0 THEN NumString(n.n) \o u ELSE <<>>

\* G7Age.toString()
AgeToString(a) ==
  Trim((IF a.mod = Undef THEN <<>> ELSE a.mod)
       \o AgePart(a.years, <<"y", " ">>) \o AgePart(a.months, <<"m", " ">>)
       \o AgePart(a.weeks, <<"w", " ">>) \o AgePart(a.days, <<"d">>))

\* A number of seconds: Number() of two digits and an optional fraction, as
\* its integer part and the digits of its fraction without trailing zeros
Seconds(n, f) == [def |-> TRUE, n |-> n, f |-> f]

NoSeconds == [def |-> FALSE, n |-> 0, f |-> <<>>]

RECURSIVE StripZeros(_)
StripZeros(f) ==
  IF f # <<>> /\ f[Len(f)] = "0" THEN StripZeros(SubSeq(f, 1, Len(f) - 1)) ELSE f

\* ([01]?[0-9]|2[0-3]): : the position of the colon, 0 when there is none
TimeHour(s) ==
  IF IsDigit(At(s, 1)) /\ At(s, 2) = ":" THEN 2
  ELSE IF At(s, 1) \in {"0", "1"} /\ IsDigit(At(s, 2)) /\ At(s, 3) = ":" THEN 3
  ELSE IF At(s, 1) = "2" /\ At(s, 2) \in {"0", "1", "2", "3"} /\ At(s, 3) = ":" THEN 3
  ELSE 0

\* [0-5][0-9] at position p
TimeSixty(s, p) == At(s, p) \in {"0", "1", "2", "3", "4", "5"} /\ IsDigit(At(s, p + 1))

\* (?::([0-5][0-9](?:[.][0-9]+)?))? at position p: the position after it
TimeSecondEnd(s, p) ==
  IF At(s, p) = ":" /\ TimeSixty(s, p + 1)
  THEN (IF At(s, p + 3) = "." /\ IsDigit(At(s, p + 4)) THEN Span(s, p + 4, IsDigit) ELSE p + 3)
  ELSE p

TimeSecond(s, p, q) ==
  IF q = p THEN NoSeconds
  ELSE Seconds(ToNum(Sub(s, p + 1, p + 3)), StripZeros(Sub(s, p + 4, q)))

TimeOf(hour, minute, second, tz) ==
  [hour |-> hour, minute |-> minute, second |-> second, tz |-> tz]

\* The rest of the expression after the minutes, which end before position p
TimeTail(L, s, h, p, q) ==
  IF (IF At(s, q) = "Z" THEN q + 1 ELSE q) = Len(s) + 1
  THEN Ret(L, TimeOf(Num(ToNum(Sub(s, 1, h))), Num(ToNum(Sub(s, h + 1, h + 3))),
                     TimeSecond(s, p, q), IF At(s, q) = "Z" THEN <<"Z">> ELSE Undef))
  ELSE Ret(LErrIn(L, <<>>, "Invalid time", <<s>>), TimeOf(Num(0), Num(0), NoSeconds, Undef))

TimeMinute(L, s, h) ==
  IF h # 0 /\ TimeSixty(s, h + 1) THEN TimeTail(L, s, h, h + 3, TimeSecondEnd(s, h + 3))
  ELSE Ret(LErrIn(L, <<>>, "Invalid time", <<s>>), TimeOf(Num(0), Num(0), NoSeconds, Undef))

\* new G7Time(payload, lookup) of a string, with
\* /^([01]?[0-9]|2[0-3]):([0-5][0-9])(?::([0-5][0-9](?:[.][0-9]+)?))?(?:(Z))?$/
G7Time(L, payload) == TimeMinute(L, payload, TimeHour(payload))

\* (100+n).toString().substr(1) of an integer below 100
Pad2(n) == <<Digits[(n \div 10) + 1], Digits[(n % 10) + 1]>>

\* (100+this.second).toString().substr(1)
PadSeconds(x) == Pad2(x.n) \o (IF x.f = <<>> THEN <<>> ELSE <<".">> \o x.f)

\* G7Time.toString()
TimeToString(t) ==
  Pad2(t.hour.n) \o <<":">> \o Pad2(t.minute.n)
  \o (IF t.second.def THEN <<":">> \o PadSeconds(t.second) ELSE <<>>)
  \o (IF t.tz = Undef THEN <<>> ELSE t.tz)

RECURSIVE SplitOn(_, _, _)
\* The pieces of s between the occurrences of the character c
SplitOn(s, c, cur) ==
  IF s = <<>> THEN <<cur>>
  ELSE IF s[1] = c THEN <<cur>> \o SplitOn(Tail(s), c, <<>>)
  ELSE SplitOn(Tail(s), c, Append(cur, s[1]))

GREGORIAN == <<"G", "R", "E", "G", "O", "R", "I", "A", "N">>
JULIAN == <<"J", "U", "L", "I", "A", "N">>
FRENCH_R == <<"F", "R", "E", "N", "C", "H", "_", "R">>
HEBREW == <<"H", "E", "B", "R", "E", "W">>
BCE == <<"B", "C", "E">>
JAN == <<"J", "A", "N">>
FEB == <<"F", "E", "B">>
VEND == <<"V", "E", "N", "D">>
TSH == <<"T", "S", "H">>

CalNames == {GREGORIAN, JULIAN, FRENCH_R, HEBREW}

CalURI(t) == V(<<"c", "a", "l", "-">> \o t)

MonthURI(t) == V(<<"m", "o", "n", "t", "h", "-">> \o t)

\* The months of the registry's calendars, by tag
CalMonths(t) ==
  IF t \in {GREGORIAN, JULIAN} THEN [x \in {JAN, FEB} |-> MonthURI(x)]
  ELSE IF t = FRENCH_R THEN [x \in {VEND} |-> MonthURI(x)]
  ELSE [x \in {TSH} |-> MonthURI(x)]

\* g7.calendar of the registry, by tag
g7calendar ==
  [t \in CalNames |->
     [type |-> CalURI(t), hasMonths |-> TRUE, months |-> CalMonths(t),
      hasEpochs |-> TRUE, epochs |-> IF t \in {GREGORIAN, JULIAN} THEN {BCE} ELSE {}]]

\* {type: t}: a calendar that is not in the registry
PlainCalendar(t) ==
  [type |-> t, hasMonths |-> FALSE, months |-> <<>>, hasEpochs |-> FALSE, epochs |-> {}]

\* g7.calendar[alias], by URI: has(uri) and get(uri)
CalAliasHas(uri) == \E t \in CalNames : g7calendar[t].type = uri

CalAliasGet(uri) == g7calendar[CHOOSE t \in CalNames : g7calendar[t].type = uri]

\* cal.months[alias].has(uri)
MonthAliasHas(cal, uri) == \E t \in DOMAIN cal.months : cal.months[t] = uri

\* g7.tag of the registry for the URIs of calendars and months
g7calendarTag(uri) ==
  IF \E t \in CalNames : CalURI(t) = uri THEN SubSeq(uri, 7, Len(uri))
  ELSE IF \E t \in {JAN, FEB, VEND, TSH} : MonthURI(t) = uri THEN SubSeq(uri, 9, Len(uri))
  ELSE <<>>

\* tag(uri) of the URI of a calendar or of a month
calendarTag(L, uri) ==
  IF g7calendarTag(uri) # <<>> THEN g7calendarTag(uri) ELSE lookupTag(L, uri, FALSE)

RECURSIVE CalendarFind(_, _, _, _)
\* for (let uri of this.#ext.get(tag)) of calendar(tag): [L, found], <<>>
\* standing for false
CalendarFind(L, tag, uris, found) ==
  IF uris = <<>> THEN Ret(L, found)
  ELSE IF ~(Head(uris) \in DOMAIN g7calendar \/ CalAliasHas(Head(uris)))
    THEN CalendarFind(L, tag, Tail(uris), found)
  ELSE IF found # <<>> /\ found # Head(uris)
    THEN CalendarFind(ambig(L, <<<<"c", "a", "l", "e", "n", "d", "a", "r">>, tag, found, Head(uris)>>, FALSE), tag,
                      Tail(uris), found)
  ELSE CalendarFind(L, tag, Tail(uris), Head(uris))

CalendarOfMisc(r) == Ret(r.L, PlainCalendar(r.v))

CalendarMisc(L, tag) == CalendarOfMisc(misc(L, tag, <<"c", "a", "l", "e", "n", "d", "a", "r">>, FALSE))

CalendarFound(r, tag) ==
  IF r.v = <<>> THEN CalendarMisc(r.L, tag)
  ELSE IF r.v \in DOMAIN g7calendar THEN Ret(r.L, g7calendar[r.v])
  ELSE Ret(aliased(r.L, <<<<"c", "a", "l", "e", "n", "d", "a", "r">>, r.v, tag>>), CalAliasGet(r.v))

\* calendar(tag)
calendar(L, tag) ==
  IF tag \in DOMAIN g7calendar THEN Ret(L, g7calendar[tag])
  ELSE IF First(tag) # "_"
    THEN CalendarMisc(LErrOnce(L, "Standard tag cannot identify a calendar", <<tag>>), tag)
  ELSE IF ExtHas(L, tag) THEN CalendarFound(CalendarFind(L, tag, L.ext[tag], <<>>), tag)
  ELSE CalendarMisc(L, tag)

RECURSIVE MonthFind(_, _, _, _, _)
\* for (let uri of this.#ext.get(tag)) of month(cal, tag)
MonthFind(L, cal, tag, uris, found) ==
  IF uris = <<>> THEN Ret(L, found)
  ELSE IF ~(Head(uris) \in DOMAIN cal.months \/ MonthAliasHas(cal, Head(uris)))
    THEN MonthFind(L, cal, tag, Tail(uris), found)
  ELSE IF found # <<>> /\ found # Head(uris)
    THEN MonthFind(ambig(L, <<cal.type, <<"m", "o", "n", "t", "h">>, tag, found, Head(uris)>>, FALSE), cal, tag,
                   Tail(uris), found)
  ELSE MonthFind(L, cal, tag, Tail(uris), Head(uris))

\* `calendar ${cal.type}'s month`
MonthPrefix(cal) == <<"m", "o", "n", "t", "h", " ", "o", "f", " ", "c", "a", "l", "e", "n", "d", "a", "r", " ">> \o cal.type

MonthFound(r, cal, tag) ==
  IF r.v = <<>>
  THEN misc(LErrOnce(r.L, "months do not include", <<cal.type, r.L.ext[tag]>>), tag,
            MonthPrefix(cal), FALSE)
  ELSE IF r.v \in DOMAIN cal.months THEN Ret(r.L, cal.months[r.v])
  ELSE Ret(aliased(r.L, <<cal.type, <<"m", "o", "n", "t", "h">>, r.v, tag>>), r.v)

\* month(cal, tag)
month(L, cal, tag) ==
  IF ~cal.hasMonths THEN misc(L, tag, MonthPrefix(cal), FALSE)
  ELSE IF tag \in DOMAIN cal.months THEN Ret(L, cal.months[tag])
  ELSE IF First(tag) # "_"
    THEN misc(LErrOnce(L, "calendar does not have a month", <<cal.type, tag>>), tag,
              MonthPrefix(cal), FALSE)
  ELSE IF ExtHas(L, tag) THEN MonthFound(MonthFind(L, cal, tag, L.ext[tag], <<>>), cal, tag)
  ELSE misc(L, tag, MonthPrefix(cal), FALSE)

\* _[A-Z0-9_]+
IsExtTok(t) == Len(t) >= 2 /\ t[1] = "_" /\ \A k \in 2..Len(t) : IsWord7(t[k])

\* GREGORIAN|JULIAN|FRENCH_R|HEBREW|_[A-Z0-9_]+
IsCalTok(t) == t \in CalNames \/ IsExtTok(t)

\* [0-9]+
IsNumTok(t) == t # <<>> /\ \A k \in 1..Len(t) : IsDigit(t[k])

\* [A-Z_][A-Z0-9_]+
IsMonthTok(t) ==
  Len(t) >= 2 /\ (t[1] \in Upper \/ t[1] = "_") /\ \A k \in 2..Len(t) : IsWord7(t[k])

\* BCE|_[A-Z0-9_]+
IsEpochTok(t) == t = BCE \/ IsExtTok(t)

\* The ways the optional groups of the date expression can be present, in
\* the order the engine tries them: calendar, day, month, epoch
DateShapes ==
  <<[c |-> 1, d |-> 1, m |-> 1, e |-> 1], [c |-> 1, d |-> 1, m |-> 1, e |-> 0],
    [c |-> 1, d |-> 0, m |-> 1, e |-> 1], [c |-> 1, d |-> 0, m |-> 1, e |-> 0],
    [c |-> 1, d |-> 0, m |-> 0, e |-> 1], [c |-> 1, d |-> 0, m |-> 0, e |-> 0],
    [c |-> 0, d |-> 1, m |-> 1, e |-> 1], [c |-> 0, d |-> 1, m |-> 1, e |-> 0],
    [c |-> 0, d |-> 0, m |-> 1, e |-> 1], [c |-> 0, d |-> 0, m |-> 1, e |-> 0],
    [c |-> 0, d |-> 0, m |-> 0, e |-> 1], [c |-> 0, d |-> 0, m |-> 0, e |-> 0]>>

\* The pieces t of the payload between its spaces are the groups of shape sh
ShapeFits(t, sh) ==
  /\ Len(t) = sh.c + sh.d + sh.m + 1 + sh.e
  /\ sh.c = 1 => IsCalTok(t[1])
  /\ sh.d = 1 => IsNumTok(t[sh.c + 1])
  /\ sh.m = 1 => IsMonthTok(t[sh.c + sh.d + 1])
  /\ IsNumTok(t[sh.c + sh.d + sh.m + 1])
  /\ sh.e = 1 => IsEpochTok(t[sh.c + sh.d + sh.m + 2])

ShapeGroups(t, sh) ==
  <<IF sh.c = 1 THEN t[1] ELSE Undef,
    IF sh.d = 1 THEN t[sh.c + 1] ELSE Undef,
    IF sh.m = 1 THEN t[sh.c + sh.d + 1] ELSE Undef,
    t[sh.c + sh.d + sh.m + 1],
    IF sh.e = 1 THEN t[sh.c + sh.d + sh.m + 2] ELSE Undef>>

DateExecOn(t) ==
  IF \E k \in 1..Len(DateShapes) : ShapeFits(t, DateShapes[k])
  THEN ShapeGroups(t, DateShapes[CHOOSE k \in 1..Len(DateShapes) :
                                   /\ ShapeFits(t, DateShapes[k])
                                   /\ \A j \in 1..(k - 1) : ~ShapeFits(t, DateShapes[j])])
  ELSE <<>>

\* /^(?:(GREGORIAN|JULIAN|FRENCH_R|HEBREW|_[A-Z0-9_]+) )?(?:(?:([0-9]+) )?([A-Z_][A-Z0-9_]+) )?([0-9]+)(?: (BCE|_[A-Z0-9_]+))?$/.exec(s):
\* the groups m[1..5], or <<>> for null. The groups are separated by single
\* spaces and hold none, so they are the pieces of s between its spaces.
DateExec(s) == DateExecOn(SplitOn(s, " ", <<>>))

DateOf(cal, year, mon, day, epoch) ==
  [calendar |-> cal, year |-> year, month |-> mon, day |-> day, epoch |-> epoch]

\* if (m[5]) ...: [L, epoch]
DateEpoch(L, cal, e) ==
  IF e = Undef THEN Ret(L, Undef)
  ELSE IF ~cal.hasEpochs \/ e \in cal.epochs THEN Ret(L, e)
  ELSE Ret(LErrIn(L, <<>>, "Invalid epoch", <<e, cal.type>>), Undef)

DateWithEpoch(m, cal, mon, re) ==
  Ret(re.L, DateOf(cal.type, Num(ToNum(m[4])), mon, NumOf(m[2]), re.v))

DateWithMonth(m, cal, rm) == DateWithEpoch(m, cal, rm.v, DateEpoch(rm.L, cal, m[5]))

DateWithCalendar(m, rc) ==
  DateWithMonth(m, rc.v, IF m[3] = Undef THEN Ret(rc.L, Undef) ELSE month(rc.L, rc.v, m[3]))

G7DateOfMatch(L, payload, m) ==
  IF m = <<>>
  THEN Ret(LErrIn(L, <<>>, "Invalid date", <<payload>>),
           DateOf(<<"_", "E", "R", "R", "O", "R">>, Num(0), Undef, NoNum, Undef))
  ELSE DateWithCalendar(m, calendar(L, IF m[1] = Undef THEN GREGORIAN ELSE m[1]))

\* new G7Date(payload, lookup) of a string
G7Date(L, payload) == G7DateOfMatch(L, payload, DateExec(payload))

\* G7Date.toString(showGregorian)
DateToString(L, d, showGregorian) ==
  (IF showGregorian \/ d.calendar # CalURI(GREGORIAN)
   THEN calendarTag(L, d.calendar) \o <<" ">> ELSE <<>>)
  \o (IF d.day.def THEN NumString(d.day.n) \o <<" ">> ELSE <<>>)
  \o (IF d.month # Undef THEN calendarTag(L, d.month) \o <<" ">> ELSE <<>>)
  \o NumString(d.year.n)
  \o (IF d.epoch # Undef THEN <<" ">> \o d.epoch ELSE <<>>)

\* The position of the last occurrence of pat in s at or after position p,
\* 0 when there is none: where a greedy (.*) before pat ends
LastAt(s, p, pat) ==
  IF \E k \in p..Len(s) : StartsWith(s, k, pat)
  THEN CHOOSE k \in p..Len(s) :
         StartsWith(s, k, pat) /\ \A j \in (k + 1)..Len(s) : ~StartsWith(s, j, pat)
  ELSE 0

\* The rest of s from position p on
From(s, p) == Sub(s, p, Len(s) + 1)

DVMatch(alt, a, b) == [alt |-> alt, a |-> a, b |-> b]

\* /^(ABT|CAL|EST) (.*)$|^BET (.*) AND (.*)$|^BEF (.*)$|^AFT (.*)$|^FROM (.*) TO (.*)$|^FROM (.*)$|^TO (.*)$|^(.+)$/.exec(s):
\* the alternative that matched and the one or two groups it captured
\* (alt 0 for null). No alternative matches a string with a line break.
DateValueExec(s) ==
  IF s = <<>> \/ \E k \in 1..Len(s) : IsEOL(s[k]) THEN DVMatch(0, Undef, Undef)
  ELSE IF \E t \in {<<"A", "B", "T">>, <<"C", "A", "L">>, <<"E", "S", "T">>} : StartsWith(s, 1, t \o <<" ">>)
    THEN DVMatch(1, Sub(s, 1, 4), From(s, 5))
  ELSE IF StartsWith(s, 1, <<"B", "E", "T", " ">>) /\ LastAt(s, 5, <<" ", "A", "N", "D", " ">>) # 0
    THEN DVMatch(2, Sub(s, 5, LastAt(s, 5, <<" ", "A", "N", "D", " ">>)), From(s, LastAt(s, 5, <<" ", "A", "N", "D", " ">>) + 5))
  ELSE IF StartsWith(s, 1, <<"B", "E", "F", " ">>) THEN DVMatch(3, From(s, 5), Undef)
  ELSE IF StartsWith(s, 1, <<"A", "F", "T", " ">>) THEN DVMatch(4, From(s, 5), Undef)
  ELSE IF StartsWith(s, 1, <<"F", "R", "O", "M", " ">>) /\ LastAt(s, 6, <<" ", "T", "O", " ">>) # 0
    THEN DVMatch(5, Sub(s, 6, LastAt(s, 6, <<" ", "T", "O", " ">>)), From(s, LastAt(s, 6, <<" ", "T", "O", " ">>) + 4))
  ELSE IF StartsWith(s, 1, <<"F", "R", "O", "M", " ">>) THEN DVMatch(6, From(s, 6), Undef)
  ELSE IF StartsWith(s, 1, <<"T", "O", " ">>) THEN DVMatch(7, From(s, 4), Undef)
  ELSE DVMatch(8, s, Undef)

\* A date value: its type and its dates, each <<>> (undefined) or <<date>>
DateValueOf(type, date, date2) == [type |-> type, date |-> date, date2 |-> date2]

DVEmpty == DateValueOf(<<"e", "m", "p", "t", "y">>, <<>>, <<>>)

\* this.type = type; this.date = new G7Date(a, lookup)
DVFirst(type, r) == Ret(r.L, DateValueOf(type, <<r.v>>, <<>>))

\* this.type = type; this.date2 = new G7Date(a, lookup)
DVSecond(type, r) == Ret(r.L, DateValueOf(type, <<>>, <<r.v>>))

DVBothOf(type, r1, r2) == Ret(r2.L, DateValueOf(type, <<r1.v>>, <<r2.v>>))

DVBoth(type, r1, b) == DVBothOf(type, r1, G7Date(r1.L, b))

DVInvalid(L, payload) ==
  Ret(IF payload # <<>> THEN LErrIn(L, <<>>, "Invalid date", <<payload>>) ELSE L, DVEmpty)

G7DateValueOfMatch(L, payload, m) ==
  IF m.alt = 0 \/ m.a = <<>> THEN DVInvalid(L, payload)
  ELSE IF m.alt = 1 THEN DVFirst(m.a, G7Date(L, m.b))
  ELSE IF m.alt = 2 THEN DVBoth(<<"d", "a", "t", "e", "R", "a", "n", "g", "e">>, G7Date(L, m.a), m.b)
  ELSE IF m.alt = 3 THEN DVSecond(<<"d", "a", "t", "e", "R", "a", "n", "g", "e">>, G7Date(L, m.a))
  ELSE IF m.alt = 4 THEN DVFirst(<<"d", "a", "t", "e", "R", "a", "n", "g", "e">>, G7Date(L, m.a))
  ELSE IF m.alt = 5 THEN DVBoth(<<"D", "a", "t", "e", "P", "e", "r", "i", "o", "d">>, G7Date(L, m.a), m.b)
  ELSE IF m.alt = 6 THEN DVFirst(<<"D", "a", "t", "e", "P", "e", "r", "i", "o", "d">>, G7Date(L, m.a))
  ELSE IF m.alt = 7 THEN DVSecond(<<"D", "a", "t", "e", "P", "e", "r", "i", "o", "d">>, G7Date(L, m.a))
  ELSE DVFirst(<<"d", "a", "t", "e">>, G7Date(L, m.a))

\* new G7DateValue(payload, lookup) of a string
G7DateValue(L, payload) == G7DateValueOfMatch(L, payload, DateValueExec(payload))

\* The outcome of a toString(): the string, or what was thrown
Printed(s) == [status |-> "ok", s |-> s]

Thrown(what) == [status |-> what, s |-> <<>>]

\* ... this.date.toString(d) + sep + this.date2.toString(d) with
\* d = this.date.calendar != this.date2.calendar
DVPair(L, v, word, sep) ==
  Printed(word \o DateToString(L, v.date[1], v.date[1].calendar # v.date2[1].calendar)
          \o sep \o DateToString(L, v.date2[1], v.date[1].calendar # v.date2[1].calendar))

\* G7DateValue.toString(). In the branch of a range with one date the
\* condition reads the identifier date, which nothing declares; in the
\* branch of a period with only date2 the code calls this.date.toString.
DateValueToString(L, v) ==
  IF v.type = <<"e", "m", "p", "t", "y">> THEN Printed(<<>>)
  ELSE IF v.type = <<"d", "a", "t", "e">> THEN Printed(DateToString(L, v.date[1], FALSE))
  ELSE IF v.type \in {<<"A", "B", "T">>, <<"C", "A", "L">>, <<"E", "S", "T">>}
    THEN Printed(v.type \o <<" ">> \o DateToString(L, v.date[1], FALSE))
  ELSE IF v.type = <<"d", "a", "t", "e", "R", "a", "n", "g", "e">>
    THEN (IF v.date # <<>> /\ v.date2 # <<>> THEN DVPair(L, v, <<"B", "E", "T", " ">>, <<" ", "A", "N", "D", " ">>)
          ELSE Thrown("ReferenceError"))
  ELSE IF v.type = <<"D", "a", "t", "e", "P", "e", "r", "i", "o", "d">>
    THEN (IF v.date # <<>> /\ v.date2 # <<>> THEN DVPair(L, v, <<"F", "R", "O", "M", " ">>, <<" ", "T", "O", " ">>)
          ELSE IF v.date # <<>> THEN Printed(<<"F", "R", "O", "M", " ">> \o DateToString(L, v.date[1], FALSE))
          ELSE Thrown("TypeError"))
  ELSE Thrown("Error")

(***************************************************************************)
(* The payloads of the typed layer are parsed by G7Datatype.fromString.     *)
(***************************************************************************)
\* The messages after the first `from` ones went through the sink that
\* createSubstructure or createRecord wrapped
RECURSIVE Prefixed(_, _, _)
Prefixed(log, from, pfx) ==
  IF Len(log) <= from THEN log
  ELSE Append(Prefixed(SubSeq(log, 1, Len(log) - 1), from, pfx),
              IF log[Len(log)].sink = "err" THEN [log[Len(log)] EXCEPT !.pfx = pfx]
              ELSE log[Len(log)])

\* case 'https://gedcom.io/terms/v7/type-Age': return new G7Age(str, lookup)
AgePayload(r, from, pfx) == Ret([r.L EXCEPT !.log = Prefixed(@, from, pfx)], TAgeValue(r.v))

\* G7Datatype.fromString(pltype, str, lookup), for the payload types of the
\* registry: [L, v]
DatatypeFromString(L, pfx, pltype, str) ==
  IF Truthy(str) /\ str.k # "str" THEN Ret(L, str)
  ELSE IF pltype.type = TAny THEN Ret(L, str)
  ELSE IF pltype.type = TNull
    THEN Ret(IF Truthy(str) THEN LErrIn(L, pfx, "no payload allowed", <<>>) ELSE L, TUndef)
  ELSE IF pltype.type = TPointer
    THEN Ret(IF str.k # "null" THEN LErrIn(L, pfx, "pointer payload expected", <<str>>) ELSE L,
             TNullPtr)
  ELSE IF pltype.type = TAge
    THEN AgePayload(G7Age(L, IF str.k = "str" THEN str.s ELSE <<>>), Len(L.log), pfx)
  ELSE IF pltype.type = TString THEN Ret(L, IF Truthy(str) THEN str ELSE TStr(<<>>))
  ELSE Ret(LWarn(L, "parser does not understand datatype", <<pltype.type>>), str)

\* if (!payload.#id) payload.#id = this.#lookup.uniqueID(), on the arena
GiveId(S, n, r) == [S EXCEPT !.L = r.L, !.T[n].id = r.v]

EnsureId(S, n) == IF S.T[n].id \in {Undef, <<>>} THEN GiveId(S, n, uniqueID(S.L, <<>>)) ELSE S

\* new G7Structure(lookup, type, payload, sup, id): v is the new structure
G7Structure(S, type, pl, sup, id) ==
  LET me == Len(S.T) + 1
      node == [type |-> type, payload |-> pl, sup |-> sup, sub |-> <<>>, ref |-> {},
               id |-> id, xref |-> Undef]
      T1 == [k \in 1..me |->
               IF k = me THEN node
               ELSE IF k = sup THEN [S.T[k] EXCEPT !.sub = MapPush(@, type, me)]
               ELSE S.T[k]]
      S1 == [S EXCEPT !.T = T1, !.v = me]
  IN  IF pl.k = "rec"
      THEN [EnsureId([S1 EXCEPT !.T[pl.n].ref = @ \cup {me}], pl.n) EXCEPT !.T[me].id = id]
      ELSE S1

\* createSubstructure, after the type is known
CreateTyped(S, this, type, r) == G7Structure([S EXCEPT !.L = r.L], type, r.v, this, Undef)

CreateWithType(S, this, type, str, pltype) ==
  CreateTyped(S, this, type,
    DatatypeFromString(S.L, type, IF pltype = NoPlType THEN lookupPayload(type) ELSE pltype, str))

CreateLooked(S, this, r, str, pltype) ==
  CreateWithType([S EXCEPT !.L = r.L], this, r.v.type, str, pltype)

\* createSubstructure(type, payload, pltype), pltype = NoPlType when it is not given
createSubstructure(S, this, type, str, pltype) ==
  IF ~Includes(type, ":")
  THEN CreateLooked(S, this, substructure(S.L, S.T[this].type, type), str, pltype)
  ELSE CreateWithType(S, this, type, str, pltype)

RECURSIVE gedcSubstructures(_, _, _, _)
\* gedcSubstructures(sub): sub a list of structures of the tag-layer forest G
gedcSubstructures(S, this, G, sub) ==
  IF sub = <<>> THEN S
  ELSE gedcSubstructures(
         gedcSubstructures(
           createSubstructure(S, this, G[Head(sub)].tag, GedcPayload(G[Head(sub)].payload), NoPlType),
           Len(S.T) + 1, G, G[Head(sub)].sub),
         this, G, Tail(sub))

\* The end of createRecord: the header or the records Map takes the record
StoreRecord(S, type) ==
  IF type = V(HEAD)
  THEN (IF S.header # 0 THEN [S EXCEPT !.L = LErr(@, "Only one header is allowed", <<>>)]
        ELSE [S EXCEPT !.header = S.v])
  ELSE [S EXCEPT !.records = MapPush(@, type, S.v)]

RecordTyped(S, type, r, id) == StoreRecord(G7Structure([S EXCEPT !.L = r.L], type, r.v, 0, id), type)

RecordWithType(S, type, str, pltype, id) ==
  RecordTyped(S, type,
    DatatypeFromString(S.L, type, IF pltype = NoPlType THEN lookupPayload(type) ELSE pltype, str), id)

RecordLooked(S, r, str, pltype, id) ==
  RecordWithType([S EXCEPT !.L = r.L], r.v.type, str, pltype, id)

\* createRecord(type, payload, pltype, id): v is the record
createRecord(S, type, str, pltype, id) ==
  IF ~Includes(type, ":")
  THEN RecordLooked(S, substructure(S.L, <<>>, type), str, pltype, id)
  ELSE RecordWithType(S, type, str, pltype, id)

\* The pointer map of fromGEDC (kind "gedc": a WeakMap from tag-layer
\* structures to records) or of fromJSON (kind "json": a Map from
\* identifiers to records): [kind, f]
PtrMap(kind, f) == [kind |-> kind, f |-> f]

\* map.has(key) for a payload or a text as key
PtrMapHas(map, pl) ==
  IF map.kind = "gedc" THEN pl.k = "gedc" /\ pl.n \in DOMAIN map.f
  ELSE pl.k = "str" /\ pl.s \in DOMAIN map.f

PtrMapGet(map, pl) == IF map.kind = "gedc" THEN map.f[pl.n] ELSE map.f[pl.s]

\* this.payload = map.get(key); this.payload.#ref.add(this)
PointTo(S, n, t) == [S EXCEPT !.T[n].payload = TRec(t), !.T[n].xref = Undef, !.T[t].ref = @ \cup {n}]

\* if (this.payload && !this.payload.#id) this.payload.#id = this.xref.substr(1)
XrefId(S, t, id) == IF S.T[t].id \in {Undef, <<>>} THEN [S EXCEPT !.T[t].id = id] ELSE S

RECURSIVE fixPointers(_, _, _)
RECURSIVE fixPointersEach(_, _, _)
\* The body of fixPointers on structure n
FixOwn(S, n, map) ==
  IF S.T[n].xref # Undef /\ S.T[n].xref # <<>>
  THEN (IF PtrMapHas(map, TStr(Tail(S.T[n].xref)))
        THEN XrefId(PointTo(S, n, PtrMapGet(map, TStr(Tail(S.T[n].xref)))),
                    PtrMapGet(map, TStr(Tail(S.T[n].xref))), Tail(S.T[n].xref))
        ELSE [S EXCEPT !.L = LErr(@, "unmatched xref in JSON input", <<S.T[n].xref>>),
                       !.T[n].payload = TNullPtr, !.T[n].xref = Undef])
  ELSE IF PtrMapHas(map, S.T[n].payload)
    THEN EnsureId(PointTo(S, n, PtrMapGet(map, S.T[n].payload)), PtrMapGet(map, S.T[n].payload))
  ELSE IF S.T[n].payload.k = "gedc"
    THEN [S EXCEPT !.L = LErr(@, "v7 forbids pointers to substructures", <<>>),
                   !.T[n].payload = TNullPtr]
  ELSE S

\* fixPointers(map)
fixPointers(S, n, map) == fixPointersEach(FixOwn(S, n, map), MapValues(S.T[n].sub), map)

fixPointersEach(S, list, map) ==
  IF list = <<>> THEN S ELSE fixPointersEach(fixPointers(S, Head(list), map), Tail(list), map)

\* checkDatatype(payload, plt) on the arena T
checkDatatype(T, pl, plt) ==
  IF plt.type = TAny THEN TRUE
  ELSE IF plt.type = TNull THEN pl.k = "undef"
  ELSE IF plt.type = TPointer THEN pl.k = "null" \/ (pl.k = "rec" /\ T[pl.n].type = plt.to)
  ELSE IF plt.type = TAge THEN pl.k = "age"
  ELSE ~Truthy(pl) \/ pl.k = "str"

\* The cardinality check without the count of the children: an entry with
\* upper bound 1 is reported as soon as a child is present
CardinalityErrorsPresent(node, v) ==
  (IF v.cardinality[2] = "1" /\ ~MapHas(node.sub, v.type)
   THEN <<LMsg("err", <<>>, "Missing substructure", <<node.type, v.type>>)>> ELSE <<>>)
  \o (IF v.cardinality[4] = "1" /\ MapHas(node.sub, v.type)
      THEN <<LMsg("err", <<>>, "Duplicate substructures", <<node.type, v.type>>)>> ELSE <<>>)

\* The errors of the cardinality check for one entry of the container
CardinalityErrors(node, v) ==
  (IF v.cardinality[2] = "1" /\ ~MapHas(node.sub, v.type)
   THEN <<LMsg("err", <<>>, "Missing substructure", <<node.type, v.type>>)>> ELSE <<>>)
  \o (IF v.cardinality[4] = "1" /\ MapHas(node.sub, v.type) /\ Len(MapGet(node.sub, v.type)) > 1
      THEN <<LMsg("err", <<>>, "Duplicate substructures", <<node.type, v.type>>)>> ELSE <<>>)

\* The errors validate reports for the structure itself, in order
OwnErrors(T, node) ==
  (IF node.type \in DOMAIN g7substructure
   THEN Flatten([k \in 1..Len(g7substructure[node.type]) |->
                   CardinalityErrors(node, g7substructure[node.type][k])])
   ELSE <<>>)
  \o (IF node.sub = <<>> /\ (node.payload.k = "undef" \/ node.payload = TStr(<<>>))
      THEN <<LMsg("err", <<>>, "Empty structure", <<node.type>>)>> ELSE <<>>)
  \o (IF ~checkDatatype(T, node.payload, lookupPayload(node.type))
      THEN <<LMsg("err", <<>>, "Invalid payload", <<node.type>>)>> ELSE <<>>)

\* The deprecation check: warn is not a binding of the module, so the call
\* throws a ReferenceError
DeprecatedEXID(node) ==
  node.type = V(EXID) /\ ~MapHas(node.sub, V(EXID \o <<"-">> \o TYPE))

RECURSIVE validate(_, _)
RECURSIVE validateEach(_, _, _)
RECURSIVE validateEachNext(_, _, _)
\* The structure's own checks are done: errs are its errors
ValidateOwn(S, n, errs) ==
  IF DeprecatedEXID(S.T[n])
  THEN [S EXCEPT !.L.log = @ \o errs, !.thrown = "ReferenceError"]
  ELSE validateEach([S EXCEPT !.L.log = @ \o errs], MapValues(S.T[n].sub), Len(errs))

\* validate(): v is the number of errors
validate(S, n) ==
  IF S.thrown # "no" THEN S ELSE ValidateOwn(S, n, OwnErrors(S.T, S.T[n]))

\* this.sub.forEach(v => v.forEach(e => errors += e.validate()))
validateEach(S, list, errors) ==
  IF S.thrown # "no" THEN S
  ELSE IF list = <<>> THEN [S EXCEPT !.v = errors]
  ELSE validateEachNext(validate(S, Head(list)), Tail(list), errors)

validateEachNext(S, list, errors) ==
  IF S.thrown # "no" THEN S ELSE validateEach(S, list, errors + S.v)

\* new G7Dataset(lookup, skipHeader), after the lookups got uniqueID
DatasetHeader(S) ==
  createSubstructure(
    createSubstructure([S EXCEPT !.header = S.v], S.v, V(GEDC), TUndef, NoPlType),
    Len(S.T) + 1, V(GEDC \o <<"-">> \o VERS), TStr(<<"7", ".", "0">>), NoPlType)

\* new G7Dataset(lookup, skipHeader)
G7Dataset(L, skipHeader) ==
  IF skipHeader THEN NewState([L EXCEPT !.unique = TRUE])
  ELSE DatasetHeader(G7Structure(NewState([L EXCEPT !.unique = TRUE]), V(HEAD), TUndef, 0, Undef))

\* /^7[.]0($|[.])/.test(payload)
IsVersion7(pl) ==
  /\ pl.k = "str" /\ Len(pl.s) >= 3
  /\ pl.s[1] = "7" /\ pl.s[2] = "." /\ pl.s[3] = "0"
  /\ (Len(pl.s) = 3 \/ pl.s[4] = ".")

\* src[0].querySelector(path)?.payload
PayloadAt(G, n, path) ==
  IF NextValue(querySelectorAll(G, n, path, {0})) = 0 THEN TUndef
  ELSE GedcPayload(G[NextValue(querySelectorAll(G, n, path, {0}))].payload)

DotPath(a, b, c) == <<".">> \o a \o <<".">> \o b \o <<".">> \o c

\* /^((?:[A-Z]|_[0-9_A-Z])[0-9_A-Z]*) (.+)$/u.exec(payload): the position of
\* the space, or 0 when there is no match
TagDefSpace(pl) ==
  IF pl.k # "str" \/ ~Includes(pl.s, " ") THEN 0
  ELSE LET p == CHOOSE k \in 1..Len(pl.s) : pl.s[k] = " " /\ \A j \in 1..(k - 1) : pl.s[j] # " "
       IN  IF /\ p > 1 /\ p < Len(pl.s)
              /\ \A j \in 1..(p - 1) : IsWord7(pl.s[j])
              /\ (pl.s[1] \in Upper \/ (pl.s[1] = "_" /\ p > 2))
              /\ \A j \in (p + 1)..Len(pl.s) : ~IsEOL(pl.s[j])
           THEN p ELSE 0

\* One round of the loop over HEAD.SCHMA.TAG
TagDef(L, pl, p) ==
  IF p = 0 THEN LErr(L, "Invalid HEAD.SHMA.TAG", <<pl>>)
  ELSE addExtension(L, SubSeq(pl.s, 1, p - 1), SubSeq(pl.s, p + 1, Len(pl.s)))

RECURSIVE TagDefs(_, _, _)
TagDefs(L, G, list) ==
  IF list = <<>> THEN L
  ELSE TagDefs(TagDef(L, GedcPayload(G[Head(list)].payload),
                      TagDefSpace(GedcPayload(G[Head(list)].payload))),
               G, Tail(list))

\* The messages before the dataset is made
FromGEDCChecks(L, G, src) ==
  LET L1 == IF G[src[1]].tag # HEAD THEN LErr(L, "Must begin with HEAD", <<>>) ELSE L
      L2 == IF G[src[Len(src)]].tag # TRLR THEN LErr(L1, "Must end with TRLR", <<>>) ELSE L1
  IN  IF ~IsVersion7(PayloadAt(G, src[1], DotPath(HEAD, GEDC, VERS)))
      THEN LWarn(L2, "Expected HEAD.GEDC.VERS 7.0", <<PayloadAt(G, src[1], DotPath(HEAD, GEDC, VERS))>>)
      ELSE L2

RECURSIVE FromGEDCRecords(_, _, _, _, _)
\* The loop over the records: [S, ptrs], ptrs the map from tag-layer
\* structures to records
FromGEDCRecords(S, G, src, i, ptrs) ==
  IF i > Len(src) - (IF G[src[Len(src)]].tag = TRLR THEN 1 ELSE 0) THEN [S |-> S, ptrs |-> ptrs]
  ELSE IF G[src[i]].tag = TRLR
    THEN FromGEDCRecords([S EXCEPT !.L = LErr(@, "TRLR can only appear at the end of a dataset", <<>>)],
                         G, src, i + 1, ptrs)
  ELSE FromGEDCRecords(
         gedcSubstructures(
           createRecord(S, G[src[i]].tag, GedcPayload(G[src[i]].payload), NoPlType, G[src[i]].id),
           Len(S.T) + 1, G, G[src[i]].sub),
         G, src, i + 1, Put(ptrs, src[i], Len(S.T) + 1))

\* ans.header.fixPointers(ptrs); ans.records.forEach(a => a.forEach(r => r.fixPointers(ptrs)))
FromGEDCFix(S, map) == fixPointersEach(S, <<S.header>> \o MapValues(S.records), map)

\* ans.header.validate(); ans.records.forEach(a => a.forEach(r => r.validate()))
FromGEDCValidate(S) == validateEach(S, <<S.header>> \o MapValues(S.records), 0)

FromGEDCEnd(r) == FromGEDCValidate(FromGEDCFix(r.S, PtrMap("gedc", r.ptrs)))

FromGEDCBody(S, G, src) ==
  FromGEDCEnd(FromGEDCRecords(
    [S EXCEPT !.L = TagDefs(@, G, querySelectorAll(G, src[1], DotPath(HEAD, SCHMA, TAG), {0}))],
    G, src, 1, <<>>))

\* G7Dataset.fromGEDC(src, lookup), src the records of the forest G
fromGEDC(G, L) ==
  IF Records(G) = <<>> THEN [NewState(L) EXCEPT !.thrown = "TypeError"]
  ELSE FromGEDCBody(G7Dataset(FromGEDCChecks(L, G, Records(G)), G[Records(G)[1]].tag = HEAD),
                    G, Records(G))

\* G7Dataset.fromString(str, lookup): the initializer of const src reads src
\* before it is initialized, which throws a ReferenceError
G7DatasetFromString(str, L) == [NewState(L) EXCEPT !.thrown = "ReferenceError"]

(***************************************************************************)
(* SpecTyped: a caller hands a text to G7Dataset.fromString, or parses it  *)
(* with GEDCStruct.fromString and hands the forest to G7Dataset.fromGEDC.  *)
(***************************************************************************)
MaxTLines == 3

\* The first lines of the text: a header, a header without version, none
HeadBlocks ==
  { <<>>,
    <<Line(0, Undef, HEAD, Undef)>>,
    <<Line(0, Undef, HEAD, Undef), Line(1, Undef, GEDC, Undef),
      Line(2, Undef, VERS, <<"7", ".", "0">>)>> }

\* The lines that follow
BodyLines ==
  { Line(0, <<"I">>, INDI, Undef),
    Line(1, Undef, ASSO, <<"@", "I", "@">>),
    Line(1, <<"S">>, SEX, <<"M">>),
    Line(1, Undef, ASSO, <<"@", "S", "@">>),
    Line(0, <<"H">>, HEAD, Undef),
    Line(1, Undef, ASSO, <<"@", "H", "@">>),
    Line(1, Undef, EXID, <<"x">>),
    Line(2, Undef, TYPE, <<"y">>),
    Line(0, Undef, TRLR, Undef) }

BodyCount(lines) == Len(SelectSeq(lines, LAMBDA ln : ln \in BodyLines))

\* The lookups of a run: fresh, with the sinks err and warn
NoResult == NewState(NewLookups)

\* lookup.err as the logger of GEDCStruct.fromString: the messages of the
\* tag layer in the lookups' log
RECURSIVE Logger(_, _)
Logger(L, log) ==
  IF log = <<>> THEN L ELSE Logger(LErr(L, "gedc", <<Head(log)>>), Tail(log))

InitTyped ==
  /\ pc = "compose" /\ cfg = g7ConfGEDC /\ built = <<>> /\ input \in HeadBlocks
  /\ text = NoText /\ parsed = NoParse /\ json = <<>> /\ copy = <<>>
  /\ arg = <<>> /\ res = NoResult

\* The caller's text grows by a line
AddTypedLine ==
  /\ pc = "compose" /\ BodyCount(input) < MaxTLines
  /\ \E ln \in BodyLines : input' = Append(input, ln)
  /\ UNCHANGED <<pc, cfg, built, text, parsed, json, copy, arg, res>>

\* G7Dataset.fromString(input, lookup)
DatasetFromString ==
  /\ pc = "compose" /\ input # <<>>
  /\ res' = G7DatasetFromString(Render(input), NewLookups)
  /\ pc' = "fromString"
  /\ UNCHANGED <<cfg, built, input, text, parsed, json, copy, arg>>

\* G7Dataset.fromGEDC(src, lookup) with the forest GEDCStruct.fromString returned
DatasetFromGEDC ==
  /\ pc = "parsed" /\ parsed.status = "ok"
  /\ res' = fromGEDC(parsed.F, Logger(NewLookups, parsed.log))
  /\ pc' = "dataset"
  /\ UNCHANGED <<cfg, built, input, text, parsed, json, copy, arg>>

NextTyped == AddTypedLine \/ ParseInput \/ DatasetFromString \/ DatasetFromGEDC

SpecTyped == InitTyped /\ [][NextTyped]_vars

(***************************************************************************)
(* SpecAPI: a caller makes a dataset with new G7Dataset(lookup), adds      *)
(* records and substructures with createRecord and createSubstructure,     *)
(* and validates a structure.                                              *)
(***************************************************************************)
MaxApi == 3

\* The payload the caller gives a structure of a type
ApiPayload(type) ==
  IF type = V(SEX) THEN TStr(<<"M">>)
  ELSE IF type = V(EXID) THEN TStr(<<"x">>)
  ELSE IF type = V(EXID \o <<"-">> \o TYPE) THEN TStr(<<"y">>)
  ELSE IF type = V(ASSO) THEN TNullPtr
  ELSE TUndef

ApiRecordTypes == {INDI, HEAD}

ApiSubTypes == {V(GEDC), V(SEX), V(EXID), V(EXID \o <<"-">> \o TYPE)}

\* The structures made by the caller (the constructor made the first three)
ApiMade(S) == Len(S.T) - 3

NoCall == [n |-> 0, before |-> 0]

InitAPI ==
  /\ pc = "api" /\ cfg = g7ConfGEDC /\ built = <<>> /\ input = <<>>
  /\ text = NoText /\ parsed = NoParse /\ json = <<>> /\ copy = <<>>
  /\ arg = NoCall /\ res = G7Dataset(NewLookups, FALSE)

\* dataset.createRecord(tag)
ApiCreateRecord ==
  /\ pc = "api" /\ ApiMade(res) < MaxApi
  /\ \E t \in ApiRecordTypes : res' = createRecord(res, t, TUndef, NoPlType, Undef)
  /\ UNCHANGED <<pc, cfg, built, input, text, parsed, json, copy, arg>>

\* structure.createSubstructure(type, payload)
ApiCreateSubstructure ==
  /\ pc = "api" /\ ApiMade(res) < MaxApi
  /\ \E n \in 1..Len(res.T), t \in ApiSubTypes :
       res' = createSubstructure(res, n, t, ApiPayload(t), NoPlType)
  /\ UNCHANGED <<pc, cfg, built, input, text, parsed, json, copy, arg>>

\* structure.validate()
ApiValidate ==
  /\ pc = "api"
  /\ \E n \in 1..Len(res.T) :
       /\ arg' = [n |-> n, before |-> Len(res.L.log)]
       /\ res' = validate(res, n)
  /\ pc' = "validated"
  /\ UNCHANGED <<cfg, built, input, text, parsed, json, copy>>

NextAPI == ApiCreateRecord \/ ApiCreateSubstructure \/ ApiValidate

SpecAPI == InitAPI /\ [][NextAPI]_vars

(***************************************************************************)
(* The datatypes applied to payload strings: a payload is parsed, the      *)
(* value is printed with toString(), and the printed string is parsed      *)
(* again with the same lookups.                                            *)
(***************************************************************************)
RECURSIVE Words(_)
\* The non-empty pieces of l joined by single spaces
Words(l) ==
  IF l = <<>> THEN <<>>
  ELSE IF Head(l) = <<>> THEN Words(Tail(l))
  ELSE IF Words(Tail(l)) = <<>> THEN Head(l)
  ELSE Head(l) \o <<" ">> \o Words(Tail(l))

AgeInputs ==
  {mod \o Words(<<y, m, w, d>>) :
     mod \in {<<>>, <<"<">>, <<">">>}, y \in {<<>>, <<"0", "y">>, <<"5", "y">>},
     m \in {<<>>, <<"0", "m">>, <<"3", "m">>}, w \in {<<>>, <<"2", "w">>}, d \in {<<>>, <<"0", "d">>, <<"1", "d">>}}
  \cup {<<"5">>, <<"5", "y", "3", "m">>, <<"3", "m", " ", "5", "y">>}

TimeInputs ==
  {h \o <<":">> \o m \o s \o z :
     h \in {<<"7">>, <<"0", "7">>, <<"2", "3">>, <<"2", "4">>}, m \in {<<"0", "5">>, <<"6", "0">>},
     s \in {<<>>, <<":", "0", "9">>, <<":", "0", "9", ".", "5">>, <<":", "0", "9", ".", "5", "0">>, <<":", "0", "0">>}, z \in {<<>>, <<"Z">>}}

DateInputs ==
  {<<"3", "3">>, <<"1", " ", "J", "A", "N", " ", "3", "3">>, <<"0", " ", "F", "E", "B", " ", "3", "3">>, <<"F", "E", "B", " ", "3", "3">>, <<"J", "U", "L", "I", "A", "N", " ", "3", "3">>, <<"G", "R", "E", "G", "O", "R", "I", "A", "N", " ", "1", " ", "J", "A", "N", " ", "3", "3">>,
   <<"3", "3", " ", "B", "C", "E">>, <<"H", "E", "B", "R", "E", "W", " ", "3", "3", " ", "B", "C", "E">>, <<"X", "X", " ", "3", "3">>, <<"_", "X", " ", "3", "3">>, <<"1", " ", " ", "J", "A", "N", " ", "3", "3">>}

DateValueInputs ==
  {<<>>} \cup DateInputs
  \cup {w \o <<" ">> \o d :
          w \in {<<"A", "B", "T">>, <<"C", "A", "L">>, <<"E", "S", "T">>, <<"B", "E", "F">>, <<"A", "F", "T">>, <<"F", "R", "O", "M">>, <<"T", "O">>, <<"B", "E", "T">>},
          d \in DateInputs \cup {<<>>}}
  \cup {<<"B", "E", "T", " ">> \o d \o <<" ", "A", "N", "D", " ">> \o e : d, e \in {<<"3", "3">>, <<"J", "U", "L", "I", "A", "N", " ", "3", "3">>, <<"1", " ", "J", "A", "N", " ", "3", "3">>, <<>>}}
  \cup {<<"F", "R", "O", "M", " ">> \o d \o <<" ", "T", "O", " ">> \o e : d, e \in {<<"3", "3">>, <<"J", "U", "L", "I", "A", "N", " ", "3", "3">>, <<"1", " ", "J", "A", "N", " ", "3", "3">>, <<>>}}

DataKinds == {"G7Age", "G7Time", "G7Date", "G7DateValue"}

DataInputs(kind) ==
  IF kind = "G7Age" THEN AgeInputs
  ELSE IF kind = "G7Time" THEN TimeInputs
  ELSE IF kind = "G7Date" THEN DateInputs
  ELSE DateValueInputs

\* new G7Age / G7Time / G7Date / G7DateValue (str, lookup)
ParseAs(kind, L, str) ==
  IF kind = "G7Age" THEN G7Age(L, str)
  ELSE IF kind = "G7Time" THEN G7Time(L, str)
  ELSE IF kind = "G7Date" THEN G7Date(L, str)
  ELSE G7DateValue(L, str)

\* value.toString()
ToStringAs(kind, L, v) ==
  IF kind = "G7Age" THEN Printed(AgeToString(v))
  ELSE IF kind = "G7Time" THEN Printed(TimeToString(v))
  ELSE IF kind = "G7Date" THEN Printed(DateToString(L, v, FALSE))
  ELSE DateValueToString(L, v)

NoData == Ret(NewLookups, <<>>)

InitData ==
  /\ pc = "data" /\ cfg = g7ConfGEDC /\ built = <<>> /\ input = <<>>
  /\ text = Printed(<<>>) /\ parsed = NoParse /\ json = <<>> /\ copy = NoData
  /\ \E kind \in DataKinds : \E str \in DataInputs(kind) : arg = [kind |-> kind, str |-> str]
  /\ res = NoData

\* value = new <kind>(str, lookup)
DataParse ==
  /\ pc = "data"
  /\ res' = ParseAs(arg.kind, NewLookups, arg.str)
  /\ pc' = "parsed"
  /\ UNCHANGED <<cfg, built, input, text, parsed, json, copy, arg>>

\* value.toString()
DataToString ==
  /\ pc = "parsed"
  /\ text' = ToStringAs(arg.kind, res.L, res.v)
  /\ pc' = "printed"
  /\ UNCHANGED <<cfg, built, input, parsed, json, copy, arg, res>>

\* new <kind>(printed, lookup)
DataReparse ==
  /\ pc = "printed" /\ text.status = "ok"
  /\ copy' = ParseAs(arg.kind, res.L, text.s)
  /\ pc' = "reparsed"
  /\ UNCHANGED <<cfg, built, input, text, parsed, json, arg, res>>

NextData == DataParse \/ DataToString \/ DataReparse

SpecData == InitData /\ [][NextData]_vars

(***************************************************************************)
(* find and findOrCreate of G7Structure and G7Dataset. The arguments       *)
(* (type, payload, type, payload, ...) are a sequence of pairs; `this` is  *)
(* a structure of the arena, or 0 for the dataset.                         *)
(***************************************************************************)
\* The payload argument -1
TAnyPayload == [k |-> "any", s |-> <<>>, n |-> 0]

Pair(type, pl) == [type |-> type, payload |-> pl]

\* String(payload)
StringOf(pl) ==
  IF pl.k = "str" THEN pl.s
  ELSE IF pl.k = "undef" THEN <<"u", "n", "d", "e", "f", "i", "n", "e", "d">>
  ELSE IF pl.k = "null" THEN <<"n", "u", "l", "l">>
  ELSE IF pl.k = "age" THEN AgeToString(pl.s)
  ELSE <<"[", "o", "b", "j", "e", "c", "t", " ", "O", "b", "j", "e", "c", "t", "]">>

\* !(payload !== -1 && payload !== candidate.payload
\*   && String(payload) != String(candidate.payload))
PayloadMatches(pl, candidate) ==
  pl.k = "any" \/ (pl.k # "age" /\ pl = candidate) \/ StringOf(pl) = StringOf(candidate)

\* this.sub.get(type) or this.records.get(type), <<>> when the map has no
\* such key
FindCandidates(S, this, type) ==
  IF this = 0 THEN (IF MapHas(S.records, type) THEN MapGet(S.records, type) ELSE <<>>)
  ELSE (IF MapHas(S.T[this].sub, type) THEN MapGet(S.T[this].sub, type) ELSE <<>>)

RECURSIVE find(_, _, _)
RECURSIVE FindIn(_, _, _)
\* for(let candidate of ...): the first candidate that matches, 0 for null
FindIn(S, list, args) ==
  IF list = <<>> THEN 0
  ELSE IF PayloadMatches(args[1].payload, S.T[Head(list)].payload)
          /\ (Len(args) = 1 \/ find(S, Head(list), Tail(args)) # 0)
    THEN Head(list)
  ELSE FindIn(S, Tail(list), args)

\* find(type, payload, ...args)
find(S, this, args) == FindIn(S, FindCandidates(S, this, args[1].type), args)

\* this.createSubstructure(type, payload, pltype) or this.createRecord(...)
FindCreate(S, this, type, pl, pltype) ==
  IF this = 0 THEN createRecord(S, type, pl, pltype, Undef)
  ELSE createSubstructure(S, this, type, pl, pltype)

\* let root = ...
FindRoot(S, this, type, pl) ==
  IF pl.k = "any"
  THEN (IF lookupPayload(type).type = TPointer
        THEN FindCreate(S, this, type, TNullPtr, lookupPayload(type))
        ELSE FindCreate(S, this, type, TStr(<<>>), NoPlType))
  ELSE FindCreate(S, this, type, pl, NoPlType)

RECURSIVE findOrCreate(_, _, _)
\* if (args.length > 0) root.findOrCreate.apply(root, args); return root
FindChain(S, args) ==
  IF Len(args) = 1 THEN S ELSE [findOrCreate(S, S.v, Tail(args)) EXCEPT !.v = S.v]

\* findOrCreate(type, payload, ...args): v is the structure returned
findOrCreate(S, this, args) ==
  IF find(S, this, args) # 0 THEN [S EXCEPT !.v = find(S, this, args)]
  ELSE FindChain(FindRoot(S, this, args[1].type, args[1].payload), args)

(***************************************************************************)
(* SpecFind: a caller makes findOrCreate calls on a new dataset and on the *)
(* structures it holds.                                                    *)
(***************************************************************************)
MaxFind == 2

\* Spellings of ages that the constructor accepts
FindAges == {<<"5", "y">>, <<"0", "5", "y">>}

\* The argument lists for a call on the dataset
DatasetArgs(S) ==
  {<<Pair(t, TAnyPayload)>> : t \in {V(INDI), V(HEAD)}}
  \cup {<<Pair(V(INDI), TAnyPayload), Pair(V(EXID), TStr(<<"x">>))>>}

\* The argument lists for a call on a structure
StructureArgs(S) ==
  {<<Pair(V(EXID), pl)>> : pl \in {TAnyPayload, TStr(<<"x">>)}}
  \cup {<<Pair(V(AGE), TStr(a))>> : a \in FindAges}
  \cup {<<Pair(V(ASSO), pl)>> :
          pl \in {TAnyPayload} \cup {TRec(n) : n \in {k \in 1..Len(S.T) : S.T[k].type = V(INDI)}}}
  \cup {<<Pair(V(EXID), TStr(<<"x">>)), Pair(V(EXID \o <<"-">> \o TYPE), TStr(<<"y">>))>>}

\* A call: its receiver, its arguments and the dataset before it
Call(this, args, pre) == [this |-> this, args |-> args, pre |-> pre]

NoFind == [calls |-> 0, last |-> Call(0, <<>>, NoResult), v |-> 0]

InitFind ==
  /\ pc = "find" /\ cfg = g7ConfGEDC /\ built = <<>> /\ input = <<>>
  /\ text = NoText /\ parsed = NoParse /\ json = <<>> /\ copy = <<>>
  /\ arg = NoFind /\ res = G7Dataset(NewLookups, FALSE)

\* The call recorded in arg' and made on res
FindCall(this, args) ==
  /\ arg' = [calls |-> arg.calls + 1, last |-> Call(this, args, res), v |-> res.v]
  /\ res' = findOrCreate(res, this, args)

\* dataset.findOrCreate(...args)
DatasetFindOrCreate ==
  /\ pc = "find" /\ arg.calls < MaxFind
  /\ \E args \in DatasetArgs(res) : FindCall(0, args)
  /\ UNCHANGED <<pc, cfg, built, input, text, parsed, json, copy>>

\* structure.findOrCreate(...args)
StructureFindOrCreate ==
  /\ pc = "find" /\ arg.calls < MaxFind
  /\ \E this \in 1..Len(res.T) : \E args \in StructureArgs(res) : FindCall(this, args)
  /\ UNCHANGED <<pc, cfg, built, input, text, parsed, json, copy>>

\* The same call once more
FindAgain ==
  /\ pc = "find" /\ arg.calls > 0
  /\ arg' = [calls |-> arg.calls, last |-> Call(arg.last.this, arg.last.args, res), v |-> res.v]
  /\ res' = findOrCreate(res, arg.last.this, arg.last.args)
  /\ pc' = "again"
  /\ UNCHANGED <<cfg, built, input, text, parsed, json, copy>>

NextFind == DatasetFindOrCreate \/ StructureFindOrCreate \/ FindAgain

SpecFind == InitFind /\ [][NextFind]_vars

(***************************************************************************)
(* toJSON and fromJSON of G7Structure and G7Dataset. The JSON text of a    *)
(* dataset is held as the sequence of its objects in document order (the   *)
(* header, then the records type by type, each followed by its sub), each  *)
(* object with the index of the object whose sub holds it (0 for the       *)
(* header and the records). A payload that is a G7Age is written as the    *)
(* object of its fields and read back as a plain object.                   *)
(***************************************************************************)
\* A plain object read from JSON: s holds its fields
TObject(o) == [k |-> "obj", s |-> o, n |-> 0]

\* JSON.parse(JSON.stringify(payload)) of a payload that is no structure
JSONPayload(pl) == IF pl.k = "age" THEN TObject(pl.s) ELSE pl

\* if (this.#id) ...
HasId(id) == id # Undef /\ id # <<>>

\* The object toJSON makes of structure n, without its sub
JSONObject(S, n, jsup) ==
  [type |-> S.T[n].type, jsup |-> jsup,
   id |-> IF HasId(S.T[n].id) THEN S.T[n].id ELSE Undef,
   xref |-> IF S.T[n].payload.k = "rec" THEN <<"#">> \o S.T[S.T[n].payload.n].id ELSE Undef,
   payload |-> IF S.T[n].payload.k = "rec" THEN TUndef ELSE JSONPayload(S.T[n].payload)]

RECURSIVE structureToJSON(_, _, _, _)
RECURSIVE structureToJSONEach(_, _, _, _)
\* G7Structure.toJSON() of structure n, appended with its sub to acc
structureToJSON(S, n, jsup, acc) ==
  structureToJSONEach(S, MapValues(S.T[n].sub), Len(acc) + 1, Append(acc, JSONObject(S, n, jsup)))

\* v.map(e => e.toJSON()) for the lists of a Map in turn
structureToJSONEach(S, list, jsup, acc) ==
  IF list = <<>> THEN acc
  ELSE structureToJSONEach(S, Tail(list), jsup, structureToJSON(S, Head(list), jsup, acc))

RECURSIVE Below(_, _)
\* The structures at and below those of list, in document order
Below(S, list) ==
  IF list = <<>> THEN <<>>
  ELSE <<Head(list)>> \o Below(S, MapValues(S.T[Head(list)].sub)) \o Below(S, Tail(list))

\* The header and the records of the dataset
Tops(S) == <<S.header>> \o MapValues(S.records)

\* throw Error("FIX ME: add identifiers to all pointed-to structures")
ToJSONThrows(S, list) ==
  \E k \in 1..Len(list) :
    S.T[list[k]].payload.k = "rec" /\ ~HasId(S.T[S.T[list[k]].payload.n].id)

\* G7Dataset.toJSON(), serialized and parsed again: [status, J]
datasetToJSON(S) ==
  IF S.header = 0 THEN [status |-> "TypeError", J |-> <<>>]
  ELSE IF ToJSONThrows(S, Below(S, Tops(S))) THEN [status |-> "Error", J |-> <<>>]
  ELSE [status |-> "ok", J |-> structureToJSONEach(S, Tops(S), 0, <<>>)]

\* What fromJSON holds while it reads the objects: the dataset and the Map
\* ids
Reading(S, ids) == [S |-> S, ids |-> ids]

\* if (obj.id) { ... } of G7Structure.fromJSON for the structure S.v
ReadId(R, o) ==
  IF ~HasId(o.id) THEN R
  ELSE IF o.jsup # 0
    THEN Reading([R.S EXCEPT !.L = LErr(@, "v7 forbids pointers to substructures", <<>>)], R.ids)
  ELSE IF o.id \in DOMAIN R.ids
    THEN Reading([R.S EXCEPT !.L = LErr(@, "duplicate id in JSON", <<o.id>>)], R.ids)
  ELSE Reading(R.S, [i \in DOMAIN R.ids \cup {o.id} |-> IF i = o.id THEN R.S.v ELSE R.ids[i]])

\* if (obj.xref) ans.xref = obj.xref
ReadXref(R, o) ==
  IF HasId(o.xref) THEN Reading([R.S EXCEPT !.T[R.S.v].xref = o.xref], R.ids) ELSE R

\* ans.header = ...; ans.records.set(k, ...)
ReadTop(S, o, isHeader) ==
  IF o.jsup # 0 THEN S
  ELSE IF isHeader THEN [S EXCEPT !.header = S.v]
  ELSE [S EXCEPT !.records = MapPush(@, o.type, S.v)]

\* G7Structure.fromJSON(lookup, sup, type, obj, ids) without the sub: the
\* structure made of object k is structure k of the arena
ReadObject(R, o, isHeader) ==
  ReadXref(ReadId(Reading(ReadTop(G7Structure(R.S, o.type, o.payload, o.jsup, o.id), o, isHeader),
                          R.ids), o), o)

RECURSIVE ReadObjects(_, _, _)
ReadObjects(R, J, k) ==
  IF k > Len(J) THEN R ELSE ReadObjects(ReadObject(R, J[k], k = 1), J, k + 1)

ReadFix(R) == fixPointersEach(R.S, Tops(R.S), PtrMap("json", R.ids))

\* G7Dataset.fromJSON(obj, lookup)
datasetFromJSON(J, L) ==
  ReadFix(ReadObjects(Reading(G7Dataset(L, TRUE), [i \in {} |-> 0]), J, 1))

(***************************************************************************)
(* SpecJSON: a caller fills a new dataset with records and substructures,  *)
(* takes it through toJSON and the JSON text, and reads it with fromJSON.  *)
(***************************************************************************)
MaxJson == 3

\* The identifiers a caller suggests for a record
JsonIds == {Undef, <<"I", "1">>}

\* The payloads of the substructures a caller creates
JsonSubs(S) ==
  {Pair(V(SEX), TStr(<<"M">>)), Pair(V(AGE), TStr(<<"5", "y">>)), Pair(V(EXID), TStr(<<"I", "1">>)),
   Pair(V(ASSO), TNullPtr)}
  \cup {Pair(V(ASSO), TRec(n)) : n \in {k \in 1..Len(S.T) : S.T[k].type = V(INDI)}}

NoJSON == [status |-> "none", J |-> <<>>]

InitJSON ==
  /\ pc = "fill" /\ cfg = g7ConfGEDC /\ built = <<>> /\ input = <<>>
  /\ text = NoText /\ parsed = NoParse /\ json = NoJSON /\ copy = NoResult
  /\ arg = 0 /\ res = G7Dataset(NewLookups, FALSE)

\* dataset.createRecord('...INDI', undefined, false, id)
JsonCreateRecord ==
  /\ pc = "fill" /\ arg < MaxJson
  /\ \E id \in JsonIds : res' = createRecord(res, V(INDI), TUndef, NoPlType, id)
  /\ arg' = arg + 1
  /\ UNCHANGED <<pc, cfg, built, input, text, parsed, json, copy>>

\* top.createSubstructure(type, payload) on the header or a record
JsonCreateSubstructure ==
  /\ pc = "fill" /\ arg < MaxJson
  /\ \E k \in 1..Len(Tops(res)) : \E p \in JsonSubs(res) :
       res' = createSubstructure(res, Tops(res)[k], p.type, p.payload, NoPlType)
  /\ arg' = arg + 1
  /\ UNCHANGED <<pc, cfg, built, input, text, parsed, json, copy>>

\* JSON.parse(JSON.stringify(dataset.toJSON()))
DatasetToJSON ==
  /\ pc = "fill"
  /\ json' = datasetToJSON(res)
  /\ pc' = "json"
  /\ UNCHANGED <<cfg, built, input, text, parsed, copy, arg, res>>

\* G7Dataset.fromJSON(json, lookup)
DatasetFromJSON ==
  /\ pc = "json" /\ json.status = "ok"
  /\ copy' = datasetFromJSON(json.J, res.L)
  /\ pc' = "copied"
  /\ UNCHANGED <<cfg, built, input, text, parsed, json, arg, res>>

NextJSON == JsonCreateRecord \/ JsonCreateSubstructure \/ DatasetToJSON \/ DatasetFromJSON

SpecJSON == InitJSON /\ [][NextJSON]_vars

(***************************************************************************)
(* The schema of a dataset. schemaPrep reserves a tag for every URI the    *)
(* dataset uses outside its standard place; populateSchema walks the       *)
(* dataset and writes HEAD.SCHMA. The Map schma is held as its string keys *)
(* in insertion order with their tags (map), the Set kept under            *)
(* Symbol.for('used') (used) and whether that Set was made (touched).      *)
(***************************************************************************)
NewSchma == [map |-> <<>>, used |-> {}, touched |-> FALSE]

\* schma.has(uri)
SchmaHas(X, uri) == \E k \in 1..Len(X.map) : X.map[k].uri = uri

\* schma.get(uri)
SchmaGet(X, uri) == X.map[CHOOSE k \in 1..Len(X.map) : X.map[k].uri = uri].tag

\* schma.set(uri, tag); used.add(tag)
SchmaSet(X, uri, tag) ==
  [X EXCEPT !.map = IF SchmaHas(X, uri)
                    THEN [k \in 1..Len(@) |-> IF @[k].uri = uri THEN [uri |-> uri, tag |-> tag] ELSE @[k]]
                    ELSE Append(@, [uri |-> uri, tag |-> tag]),
            !.used = @ \cup {tag}]

\* schma.size
SchmaSize(X) == Len(X.map) + (IF X.touched THEN 1 ELSE 0)

\* The state of a walk: the lookups, the Map, and the error thrown
Prep(L, X) == [L |-> L, X |-> X, thrown |-> "no"]

\* g7.tagInContext.struct[within]?.[type] || '_'
TagInContext(within, type) ==
  IF within \in DOMAIN g7substructure /\ HasAlias(within, type) THEN AliasOf(within, type).tag
  ELSE <<"_">>

\* let i = 1; while (this.#ext.has(tag+i) || used.has(tag+i)) i += 1
FreeNumber(L, used, tag) ==
  CHOOSE i \in 1..(Cardinality(DOMAIN L.ext) + Cardinality(used) + 1) :
    /\ ~ExtHas(L, tag \o NumString(i)) /\ (tag \o NumString(i)) \notin used
    /\ \A j \in 1..(i - 1) : ExtHas(L, tag \o NumString(j)) \/ (tag \o NumString(j)) \in used

\* The elements of a list
Elements(list) == {list[k] : k \in 1..Len(list)}

\* The documented URIs of the tag type get the tag tagi, the tag type
\* becomes a place holder
PrepRename(L, X, type, tagi) ==
  Prep([L EXCEPT !.extTag = [u \in DOMAIN L.extTag \cup Elements(L.ext[type]) |->
                               IF u \in Elements(L.ext[type]) THEN tagi ELSE L.extTag[u]],
                 !.ext = Put(Put(L.ext, tagi, L.ext[type]), type, <<>>)],
       [X EXCEPT !.map = [k \in 1..Len(@) |->
                            IF @[k].uri \in Elements(L.ext[type]) /\ @[k].tag = type
                            THEN [uri |-> @[k].uri, tag |-> tagi] ELSE @[k]],
                 !.used = (IF \E k \in 1..Len(X.map) :
                                 X.map[k].uri \in Elements(L.ext[type]) /\ X.map[k].tag = type
                           THEN @ \cup {tagi} ELSE @) \cup {type}])

\* schemaPrep of an undocumented tag
PrepUndocumented(L, X, type) ==
  IF First(type) # "_" THEN Prep(L, X)
  ELSE IF ExtHas(L, type) THEN PrepRename(L, X, type, type \o NumString(FreeNumber(L, X.used, type)))
  ELSE Prep([L EXCEPT !.ext = Put(@, type, <<>>)], [X EXCEPT !.used = @ \cup {type}])

\* /^_./.test(tag), false for undefined
ExtLike(tag) == tag # Undef /\ Len(tag) >= 2 /\ tag[1] = "_"

\* this.#ext.get(tag) != type: the list is compared as its text
ListIsNot(list, type) == Join(list, <<",">>) # type

\* schma.set(type, tag); used.add(tag); this.addExtension(tag, type)
PrepSet(L, X, type, tag) == Prep(addExtension(L, tag, type), SchmaSet(X, type, tag))

\* Cases 3 to 5: the tag, numbered when it is taken
PrepTaken(L, X, type, tag, bare) ==
  PrepSet(L, X, type,
          IF (bare /\ tag = <<"_">>) \/ (ExtHas(L, tag) /\ ListIsNot(L.ext[tag], type)) \/ tag \in X.used
          THEN tag \o NumString(FreeNumber(L, X.used, tag)) ELSE tag)

LowerLetters == <<"a", "b", "c", "d", "e", "f", "g", "h", "i", "j", "k", "l", "m", "n", "o", "p", "q", "r", "s", "t", "u", "v", "w", "x", "y", "z">>

UpperLetters == <<"A", "B", "C", "D", "E", "F", "G", "H", "I", "J", "K", "L", "M", "N", "O", "P", "Q", "R", "S", "T", "U", "V", "W", "X", "Y", "Z">>

\* toUpperCase() of a character
ToUpperCase(c) == IF c \in Lower THEN UpperLetters[CHOOSE k \in 1..26 : LowerLetters[k] = c] ELSE c

\* [\/#?=&]
IsUriDelim(c) == c \in {"/", "#", "?", "=", "&"}

\* /([^\/#?=&]+)\/?$/.exec(uri): the first group, <<>> when nothing matches
UriTail(uri) ==
  IF uri = <<>> THEN <<>>
  ELSE LET e == IF uri[Len(uri)] = "/" THEN Len(uri) - 1 ELSE Len(uri)
           delims == {k \in 1..e : IsUriDelim(uri[k])}
           b == IF delims = {} THEN 1 ELSE 1 + CHOOSE k \in delims : \A j \in delims : j <= k
       IN  SubSeq(uri, b, e)

\* The starts of a match of /[A-Z][A-Z_0-9]+$/ in tail
TagEnds(tail) ==
  {p \in 1..(Len(tail) - 1) : tail[p] \in Upper /\ \A q \in (p + 1)..Len(tail) : IsWord7(tail[q])}

RECURSIVE TagBits(_, _)
\* The matches of /([_A-Z][A-Z0-9_]+)/g in tail from position p on
TagBits(tail, p) ==
  IF p >= Len(tail) THEN <<>>
  ELSE IF (tail[p] \in Upper \/ tail[p] = "_") /\ IsWord7(tail[p + 1])
    THEN LET e == CHOOSE e \in (p + 1)..Len(tail) :
                    /\ \A q \in (p + 1)..e : IsWord7(tail[q])
                    /\ (e = Len(tail) \/ ~IsWord7(tail[e + 1]))
         IN  <<SubSeq(tail, p, e)>> \o TagBits(tail, e + 1)
  ELSE TagBits(tail, p + 1)

\* /^[a-zA-Z0-9][-a-zA-Z0-9_]{1,14}$/.test(tail)
TagLike(tail) ==
  /\ Len(tail) >= 2 /\ Len(tail) <= 15
  /\ tail[1] \in Upper \cup Lower \/ IsDigit(tail[1])
  /\ \A q \in 2..Len(tail) : IsWord5(tail[q]) \/ tail[q] = "-"

\* uriToTag of a tail: <<>> for undefined
TailToTag(tail, bits) ==
  IF TagEnds(tail) # {}
  THEN <<"_">> \o SubSeq(tail, CHOOSE p \in TagEnds(tail) : \A q \in TagEnds(tail) : p <= q, Len(tail))
  ELSE IF Len(bits) = 1 THEN (IF bits[1][1] = "_" THEN <<"_">> ELSE <<>>) \o bits[1]
  ELSE IF TagLike(tail)
    THEN <<"_">> \o [q \in 1..Len(tail) |->
                       IF ToUpperCase(tail[q]) \in Upper \/ IsDigit(tail[q]) THEN ToUpperCase(tail[q])
                       ELSE "_"]
  ELSE <<>>

\* static uriToTag(uri), of a URI with a tail
uriToTag(uri) == TailToTag(UriTail(uri), TagBits(UriTail(uri), 1))

\* Case 6: let tag = G7Lookups.uriToTag(type) || '_EXT'
PrepUnknown(L, X, type, tag) ==
  PrepSet(L, X, type,
          IF tag = <<"_">> \/ ExtHas(L, tag) \/ tag \in X.used
          THEN tag \o NumString(FreeNumber(L, X.used, tag)) ELSE tag)

\* schemaPrep of a URI: tag1 the initial guess, tag2 the registered tag
PrepURI(L, X, type, tag1, tag2) ==
  IF tag2[1] # "_" THEN Prep(L, X)
  ELSE IF type \in DOMAIN L.extTag THEN Prep(L, SchmaSet(X, type, L.extTag[type]))
  ELSE IF ExtLike(tag2) \/ ExtLike(tag1)
    THEN PrepTaken(L, X, type, IF ExtLike(tag1) THEN tag1 ELSE tag2, FALSE)
  ELSE IF tag1 # Undef /\ tag1[1] # "_" THEN PrepTaken(L, X, type, <<"_">> \o tag1, FALSE)
  ELSE IF tag1 # Undef THEN PrepTaken(L, X, type, tag1, TRUE)
  ELSE IF UriTail(type) = <<>> THEN [Prep(L, X) EXCEPT !.thrown = "TypeError"]
  ELSE PrepUnknown(L, X, type, IF uriToTag(type) = <<>> THEN <<"_", "E", "X", "T">> ELSE uriToTag(type))

\* let tag1 = this.tag(type); if (tag1.includes(':')) tag1 = undefined
Tag1(L, type) == IF Includes(lookupTag(L, type, FALSE), ":") THEN Undef ELSE lookupTag(L, type, FALSE)

\* schemaPrep(type, 'struct', within, schma)
schemaPrep(L, X, type, within) ==
  IF type = <<>> \/ SchmaHas(X, type) THEN Prep(L, X)
  ELSE IF ~Includes(type, ":") THEN PrepUndocumented(L, [X EXCEPT !.touched = TRUE], type)
  ELSE PrepURI(L, [X EXCEPT !.touched = TRUE], type, Tag1(L, type), TagInContext(within, type))

\* this.#sup?.type || ''
SupType(S, n) == IF S.T[n].sup = 0 THEN <<>> ELSE S.T[S.T[n].sup].type

RECURSIVE structurePopulateSchema(_, _, _)
\* G7Structure.populateSchema(schma) of the structures of list, one after
\* the other, each followed by its sub. No payload of the typed layer is a
\* G7Enum, a G7Date or a G7DateValue, so only the 'struct' call is made.
structurePopulateSchema(S, P, list) ==
  IF list = <<>> \/ P.thrown # "no" THEN P
  ELSE structurePopulateSchema(S,
         structurePopulateSchema(S,
           schemaPrep(P.L, P.X, S.T[Head(list)].type, SupType(S, Head(list))),
           MapValues(S.T[Head(list)].sub)),
         Tail(list))

\* this.header.sub.delete(key)
MapDelete(m, key) == SelectSeq(m, LAMBDA e : e.type # key)

\* tag+' '+uri
TagPayload(e) == e.tag \o <<" ">> \o e.uri

RECURSIVE SchmaTags(_, _, _)
\* The loop over schma.entries(): a TAG under ss for every entry without one
SchmaTags(S, ss, entries) ==
  IF entries = <<>> THEN S
  ELSE SchmaTags(
         IF MapHas(S.T[ss].sub, V(TAG))
            /\ \E k \in 1..Len(MapGet(S.T[ss].sub, V(TAG))) :
                 S.T[MapGet(S.T[ss].sub, V(TAG))[k]].payload = TStr(TagPayload(Head(entries)))
         THEN S
         ELSE createSubstructure(S, ss, V(TAG), TStr(TagPayload(Head(entries))), NoPlType),
         ss, Tail(entries))

\* The end of G7Dataset.populateSchema: HEAD.SCHMA is removed or filled
SchmaWrite(S, X) ==
  IF SchmaSize(X) <= 1 THEN [S EXCEPT !.T[S.header].sub = MapDelete(@, V(SCHMA))]
  ELSE IF MapHas(S.T[S.header].sub, V(SCHMA))
    THEN SchmaTags(S, MapGet(S.T[S.header].sub, V(SCHMA))[1], X.map)
  ELSE SchmaTags(createSubstructure(S, S.header, V(SCHMA), TUndef, NoPlType), Len(S.T) + 1, X.map)

\* The dataset and the Map after the walk P
SchmaDone(S, P) ==
  IF P.thrown # "no" THEN [S |-> [S EXCEPT !.L = P.L, !.thrown = P.thrown], X |-> P.X]
  ELSE [S |-> SchmaWrite([S EXCEPT !.L = P.L], P.X), X |-> P.X]

\* G7Dataset.populateSchema(): [S, X], X the Map returned
datasetPopulateSchema(S) == SchmaDone(S, structurePopulateSchema(S, Prep(S.L, NewSchma), Tops(S)))

(***************************************************************************)
(* SpecSchema: a caller registers extensions in the lookups, fills a new   *)
(* dataset with records and substructures whose types are URIs of          *)
(* extensions, relocated standard URIs or undocumented tags, and calls     *)
(* populateSchema.                                                         *)
(***************************************************************************)
MaxSchema == 4

\* The extension tags a caller registers or uses undocumented
SchemaTags == {<<"_", "X">>, <<"_", "A", "B">>}

\* The URIs of extensions
SchemaURIs == {<<"x", ":", "/", "A", "B">>, <<"y", ":", "/", "a", "b">>}

\* The types a caller gives to a record or a substructure
SchemaTypes == SchemaTags \cup SchemaURIs \cup {V(SEX)}

InitSchema ==
  /\ pc = "register" /\ cfg = g7ConfGEDC /\ built = <<>> /\ input = <<>>
  /\ text = NoText /\ parsed = NoParse /\ json = NoJSON /\ copy = NoResult
  /\ arg = 0 /\ res = G7Dataset(NewLookups, FALSE)

\* lookup.addExtension(tag, uri)
SchemaAddExtension ==
  /\ pc \in {"register", "fill"} /\ arg < MaxSchema
  /\ \E tag \in SchemaTags : \E uri \in SchemaURIs : res' = [res EXCEPT !.L = addExtension(@, tag, uri)]
  /\ arg' = arg + 1
  /\ UNCHANGED <<pc, cfg, built, input, text, parsed, json, copy>>

\* dataset.createRecord(type)
SchemaCreateRecord ==
  /\ pc \in {"register", "fill"} /\ arg < MaxSchema
  /\ \E type \in SchemaTypes : res' = createRecord(res, type, TUndef, NoPlType, Undef)
  /\ pc' = "fill" /\ arg' = arg + 1
  /\ UNCHANGED <<cfg, built, input, text, parsed, json, copy>>

\* top.createSubstructure(type) on the header or a record
SchemaCreateSubstructure ==
  /\ pc \in {"register", "fill"} /\ arg < MaxSchema
  /\ \E k \in 1..Len(Tops(res)) : \E type \in SchemaTypes :
       res' = createSubstructure(res, Tops(res)[k], type, TUndef, NoPlType)
  /\ pc' = "fill" /\ arg' = arg + 1
  /\ UNCHANGED <<cfg, built, input, text, parsed, json, copy>>

\* schma = dataset.populateSchema(): json holds the string entries of schma
SchemaPopulate ==
  /\ pc \in {"register", "fill"}
  /\ res' = datasetPopulateSchema(res).S
  /\ json' = [status |-> IF datasetPopulateSchema(res).S.thrown = "no" THEN "ok" ELSE "thrown",
              J |-> datasetPopulateSchema(res).X.map]
  /\ pc' = "schema"
  /\ UNCHANGED <<cfg, built, input, text, parsed, copy, arg>>

NextSchema == SchemaAddExtension \/ SchemaCreateRecord \/ SchemaCreateSubstructure \/ SchemaPopulate

SpecSchema == InitSchema /\ [][NextSchema]_vars

(***************************************************************************)
(* G7Dataset.toGEDC: the schema is populated, every structure is emitted   *)
(* as a tag-layer structure, TRLR closes the forest and fixPtrMap turns    *)
(* the typed pointers into pointers of the forest. The emission state is   *)
(* [F, of, targets, thrown]: the forest, for every structure of F the      *)
(* typed structure it was made of (0 for TRLR), and the WeakMap ptrTargets *)
(* from typed records to structures of F.                                  *)
(***************************************************************************)
\* let tag = this.type; if (tag.includes(':')) tag = this.#lookup.tag(this.type)
GEDCTagFirst(L, type) == IF Includes(type, ":") THEN lookupTag(L, type, FALSE) ELSE type

\* The check for relocation: the relocated tag when the tag is not the one
\* expected in the context
GEDCTagRelocated(L, type, within, tag) ==
  IF tag # <<>> /\ tag[1] # "_" /\ TagInContext(within, type) # tag THEN lookupTag(L, type, TRUE)
  ELSE tag

\* The tag of structure n
GEDCTag(S, n) == GEDCTagRelocated(S.L, S.T[n].type, SupType(S, n), GEDCTagFirst(S.L, S.T[n].type))

\* The two throw statements of G7Structure.toGEDC
GEDCTagThrows(X, type, tag) ==
  \/ tag = <<>> \/ Includes(tag, ":")
  \/ tag[1] = "_" /\ SchmaHas(X, type) /\ tag # SchmaGet(X, type)

\* The arguments ptr and str of new GEDCStruct(tag, sup, ptr, str, id). A
\* payload of a dataset made with createRecord and createSubstructure is
\* never a tag-layer structure.
GEDCPtrArg(pl) == IF pl.k = "null" THEN ArgNull ELSE IF pl.k = "rec" THEN ArgObj(pl.n) ELSE ArgUndef

GEDCStrArg(pl) ==
  IF pl.k \in {"null", "rec", "undef"} THEN ArgUndef ELSE ArgStr(StringOf(pl))

NewEmission == [F |-> <<>>, of |-> <<>>, targets |-> <<>>, thrown |-> "no"]

\* gedc = new GEDCStruct(...); if (!sup) ptrTargets.set(this, gedc)
Emit(S, n, gsup, E, tag) ==
  [E EXCEPT !.F = Constructor(@, tag, gsup, GEDCPtrArg(S.T[n].payload), GEDCStrArg(S.T[n].payload),
                              IF HasId(S.T[n].id) THEN S.T[n].id ELSE Undef),
            !.of = Append(@, n),
            !.targets = IF gsup = 0 THEN Put(@, n, Len(E.F) + 1) ELSE @]

RECURSIVE structureToGEDC(_, _, _, _, _)
\* G7Structure.toGEDC(schma, ptrTargets, sup) of the structures of list
structureToGEDC(S, X, list, gsup, E) ==
  IF list = <<>> \/ E.thrown # "no" THEN E
  ELSE IF GEDCTagThrows(X, S.T[Head(list)].type, GEDCTag(S, Head(list)))
    THEN [E EXCEPT !.thrown = "Error"]
  ELSE structureToGEDC(S, X, Tail(list), gsup,
         structureToGEDC(S, X, MapValues(S.T[Head(list)].sub), Len(E.F) + 1,
                         Emit(S, Head(list), gsup, E, GEDCTag(S, Head(list)))))

\* The state of the fixPtrMap pass: the forest, map.get(used), map.get(next)
\* and the messages given to the logger
NewFix(F) == [F |-> F, used |-> {VOID}, next |-> 0, log |-> <<>>]

\* The pointer part of fixPtrMap for structure n
FixMapPtr(M, n, targets) ==
  IF M.F[n].ptr.k = "obj" /\ M.F[n].ptr.n \in DOMAIN targets
  THEN [M EXCEPT !.F[n].payload = PlPtr(targets[M.F[n].ptr.n]), !.F[n].ptr = PtrNone,
                 !.F[targets[M.F[n].ptr.n]].ref = Append(@, n)]
  ELSE IF M.F[n].ptr.k # "none"
    THEN [M EXCEPT !.F[n].payload = PlNull, !.F[n].ptr = PtrNone,
                   !.log = IF M.F[n].ptr.k # "null"
                           THEN Append(@, LMsg("err", <<>>, "pointer to undefined object", <<n>>))
                           ELSE @]
  ELSE M

\* The identifier part: 'X'+next in a Set is never true, so next grows by one
FixMapId(M, n) ==
  IF Len(M.F[n].ref) = 0 THEN M
  ELSE IF M.F[n].id = Undef \/ M.F[n].id \in M.used
    THEN [M EXCEPT !.F[n].id = XId(M.next + 1), !.next = @ + 1, !.used = @ \cup {XId(M.next + 1)}]
  ELSE [M EXCEPT !.used = @ \cup {M.F[n].id}]

RECURSIVE fixPtrMap(_, _, _)
\* fixPtrMap(map, logger) of the structures of list
fixPtrMap(M, list, targets) ==
  IF list = <<>> THEN M
  ELSE fixPtrMap(fixPtrMap(FixMapId(FixMapPtr(M, Head(list), targets), Head(list)),
                           M.F[Head(list)].sub, targets),
                 Tail(list), targets)

\* ans.push(new GEDCStruct('TRLR'))
EmitTRLR(E) ==
  [E EXCEPT !.F = Constructor(@, TRLR, 0, ArgUndef, ArgUndef, Undef), !.of = Append(@, 0)]

\* The result of toGEDC: the dataset, the Map schma, the forest and of
GEDCResult(S, X, E, M) ==
  [S |-> [S EXCEPT !.L.log = @ \o M.log, !.thrown = E.thrown], X |-> X, F |-> M.F, of |-> E.of]

\* ans.forEach(e => e.fixPtrMap(ptrTargets, this.#lookup.err))
GEDCClosed(S, X, E) == GEDCResult(S, X, E, fixPtrMap(NewFix(E.F), Records(E.F), E.targets))

GEDCFixed(S, X, E) ==
  IF E.thrown # "no" THEN GEDCResult(S, X, E, NewFix(E.F)) ELSE GEDCClosed(S, X, EmitTRLR(E))

GEDCOfSchema(P) ==
  IF P.S.thrown # "no" THEN GEDCResult(P.S, P.X, NewEmission, NewFix(<<>>))
  ELSE GEDCFixed(P.S, P.X, structureToGEDC(P.S, P.X, Tops(P.S), 0, NewEmission))

\* G7Dataset.toGEDC()
datasetToGEDC(S) == GEDCOfSchema(datasetPopulateSchema(S))

(***************************************************************************)
(* SpecGEDC: a caller registers extensions, fills a new dataset as in      *)
(* SpecSchema, and serializes it with toGEDC.                              *)
(***************************************************************************)
\* forest = dataset.toGEDC(): built holds the forest, json the Map schma
\* and, as of, the typed structure of every structure of the forest
DatasetToGEDC ==
  /\ pc \in {"register", "fill"}
  /\ \E r \in {datasetToGEDC(res)} :
       /\ res' = r.S
       /\ built' = r.F
       /\ json' = [status |-> IF r.S.thrown = "no" THEN "ok" ELSE "thrown", J |-> r.X.map, of |-> r.of]
  /\ pc' = "gedc"
  /\ UNCHANGED <<cfg, input, text, parsed, copy, arg>>

NextGEDC == SchemaAddExtension \/ SchemaCreateRecord \/ SchemaCreateSubstructure \/ DatasetToGEDC

SpecGEDC == InitSchema /\ [][NextGEDC]_vars

(***************************************************************************)
(* SpecHeader: a dataset comes from new G7Dataset(lookup) or from          *)
(* G7Dataset.fromGEDC on a parsed text, and a caller adds records with     *)
(* createRecord. arg keeps the number of calls and what the dataset held   *)
(* before the last call.                                                   *)
(***************************************************************************)
MaxHeader == 2

\* The types a caller gives to createRecord
HeaderTypes == {HEAD, V(HEAD), INDI, TRLR}

NoHeaderCall == [n |-> 0, header |-> 0, log |-> 0, type |-> <<>>]

InitHeader ==
  /\ pc = "compose" /\ cfg = g7ConfGEDC /\ built = <<>> /\ input \in HeadBlocks
  /\ text = NoText /\ parsed = NoParse /\ json = <<>> /\ copy = <<>>
  /\ arg = NoHeaderCall /\ res = NoResult

\* new G7Dataset(lookup)
HeaderNew ==
  /\ pc = "compose" /\ input = <<>>
  /\ res' = G7Dataset(NewLookups, FALSE)
  /\ pc' = "dataset"
  /\ UNCHANGED <<cfg, built, input, text, parsed, json, copy, arg>>

\* dataset.createRecord(type)
HeaderCreateRecord ==
  /\ pc = "dataset" /\ res.thrown = "no" /\ arg.n < MaxHeader
  /\ \E type \in HeaderTypes :
       /\ res' = createRecord(res, type, TUndef, NoPlType, Undef)
       /\ arg' = [n |-> arg.n + 1, header |-> res.header, log |-> Len(res.L.log), type |-> type]
  /\ UNCHANGED <<pc, cfg, built, input, text, parsed, json, copy>>

NextHeader == AddTypedLine \/ ParseInput \/ DatasetFromGEDC \/ HeaderNew \/ HeaderCreateRecord

SpecHeader == InitHeader /\ [][NextHeader]_vars

(***************************************************************************)
(* SpecLookup: a caller registers extensions with addExtension and looks   *)
(* tags up with substructure(container, tag). arg keeps the last call:     *)
(* its arguments, the entry returned and the length of the log before it.  *)
(***************************************************************************)
MaxLookup == 3

\* The tags looked up or registered
LookupTags == {<<"_", "X">>, <<"_", "Y">>, SEX, EXID, HEAD}

\* The URIs registered for extension tags
LookupURIs == {<<"x", ":", "a">>, <<"x", ":", "b">>, V(SEX)}

\* The containers of the registry that are looked into
LookupContainers == {<<>>, V(HEAD), V(INDI), V(SEX)}

NoLookup == [n |-> 0, uri |-> <<>>, tag |-> <<>>, before |-> 0, entry |-> Entry(<<>>, <<>>, <<>>)]

InitLookup ==
  /\ pc = "lookup" /\ cfg = g7ConfGEDC /\ built = <<>> /\ input = <<>>
  /\ text = NoText /\ parsed = NoParse /\ json = NoJSON /\ copy = NoResult
  /\ arg = NoLookup /\ res = NewState(NewLookups)

\* lookup.addExtension(tag, uri)
LookupAddExtension ==
  /\ pc = "lookup" /\ arg.n < MaxLookup
  /\ \E tag \in LookupTags : \E uri \in LookupURIs :
       /\ First(tag) = "_"
       /\ res' = [res EXCEPT !.L = addExtension(@, tag, uri)]
  /\ arg' = [arg EXCEPT !.n = @ + 1, !.uri = <<>>, !.tag = <<>>]
  /\ UNCHANGED <<pc, cfg, built, input, text, parsed, json, copy>>

\* lookup.substructure(uri, tag)
LookupSubstructure ==
  /\ pc = "lookup" /\ arg.n < MaxLookup
  /\ \E uri \in LookupContainers : \E tag \in LookupTags :
       /\ res' = [res EXCEPT !.L = substructure(res.L, uri, tag).L]
       /\ arg' = [n |-> arg.n + 1, uri |-> uri, tag |-> tag, before |-> Len(res.L.log),
                  entry |-> substructure(res.L, uri, tag).v]
  /\ UNCHANGED <<pc, cfg, built, input, text, parsed, json, copy>>

NextLookup == LookupAddExtension \/ LookupSubstructure

SpecLookup == InitLookup /\ [][NextLookup]_vars

(***************************************************************************)
(* G7Datatype.fromString for the payload types that hold lists,            *)
(* enumeration values, dates, times, names and numbers, with an absent     *)
(* payload (undefined) among the arguments.  The outcome is [L, v, thrown].*)
(***************************************************************************)
TListText == V(<<"t", "y", "p", "e", "-", "L", "i", "s", "t", "#", "T", "e", "x", "t">>)
TEnum == V(<<"t", "y", "p", "e", "-", "E", "n", "u", "m">>)
TListEnum == V(<<"t", "y", "p", "e", "-", "L", "i", "s", "t", "#", "E", "n", "u", "m">>)
TDate == V(<<"t", "y", "p", "e", "-", "D", "a", "t", "e">>)
TDatePeriod == V(<<"t", "y", "p", "e", "-", "D", "a", "t", "e", "#", "p", "e", "r", "i", "o", "d">>)
TTime == V(<<"t", "y", "p", "e", "-", "T", "i", "m", "e">>)
TName == V(<<"t", "y", "p", "e", "-", "N", "a", "m", "e">>)
TNonNeg == <<"x", "s", "d", ":", "n", "o", "n", "N", "e", "g", "a", "t", "i", "v", "e", "I", "n", "t", "e", "g", "e", "r">>
TYNull == <<"Y", "|", "<", "N", "U", "L", "L", ">">>

\* A payload type with an enumeration set
PlEnum(type, set) == [type |-> type, to |-> <<>>, set |-> set]

SetSEX == V(<<"e", "n", "u", "m", "s", "e", "t", "-", "S", "E", "X">>)

\* g7.set of the registry: the values of an enumeration set, by tag
g7set == [u \in {SetSEX} |-> [t \in {<<"M">>, <<"F">>} |-> V(<<"e", "n", "u", "m", "-">> \o t)]]

\* String(undefined), the text a regular expression is matched against when
\* the payload is absent
StringUndefined == <<"u", "n", "d", "e", "f", "i", "n", "e", "d">>

Out(L, v, thrown) == [L |-> L, v |-> v, thrown |-> thrown]

Returns(r) == Out(r.L, r.v, "no")

TList(l) == [k |-> "list", s |-> l, n |-> 0]
TEnumValue(uri) == [k |-> "enum", s |-> uri, n |-> 0]
TDateValue(dv) == [k |-> "datevalue", s |-> dv, n |-> 0]
TTimeValue(t) == [k |-> "time", s |-> t, n |-> 0]
TNumber(n) == [k |-> "num", s |-> <<>>, n |-> n]

\* \s of a regular expression
IsWhite(c) == c \in {" ", "\n", "\r", "\t"}

RECURSIVE WhiteRun(_, _)
\* The number of white characters of s from position i on
WhiteRun(s, i) == IF i <= Len(s) /\ IsWhite(s[i]) THEN 1 + WhiteRun(s, i + 1) ELSE 0

RECURSIVE SplitList(_, _)
\* str.split(/\s*,\s*/g), cur being the piece read so far
SplitAt(s, cur, w) ==
  IF At(s, w + 1) = ","
  THEN <<cur>> \o SplitList(SubSeq(s, w + 2 + WhiteRun(s, w + 2), Len(s)), <<>>)
  ELSE SplitList(Tail(s), Append(cur, Head(s)))

SplitList(s, cur) == IF s = <<>> THEN <<cur>> ELSE SplitAt(s, cur, WhiteRun(s, 1))

\* `"${tag}" not permitted in enumeration set ${seturi}` unless tag[0] is '_'
EnumPermitted(L, seturi, tag) ==
  IF First(tag) # "_" THEN LErrOnce(L, "not permitted in enumeration set", <<tag, seturi>>) ELSE L

RECURSIVE EnumScan(_, _, _, _, _)
\* for (let uri of (this.#ext.get(tag)||[])): [L, v] with v the URI found, or Undef
EnumScan(L, seturi, tag, list, found) ==
  IF list = <<>> THEN Ret(L, found)
  ELSE IF Head(list) \notin DOMAIN g7set[seturi] THEN EnumScan(L, seturi, tag, Tail(list), found)
  ELSE IF found # Undef /\ found # Head(list)
    THEN EnumScan(ambig(L, <<seturi, tag, found, Head(list)>>, FALSE), seturi, tag, Tail(list), found)
  ELSE EnumScan(L, seturi, tag, Tail(list), Head(list))

EnumMisc(L, seturi, tag) == misc(EnumPermitted(L, seturi, tag), tag, <<"enumeration set value", seturi>>, FALSE)

EnumFound(r, seturi, tag) ==
  IF r.v # Undef THEN Ret(r.L, g7set[seturi][r.v]) ELSE EnumMisc(r.L, seturi, tag)

\* enumval(seturi, tag) for a string tag: [L, v]
enumvalOf(L, seturi, tag) ==
  IF seturi \notin DOMAIN g7set THEN EnumMisc(L, seturi, tag)
  ELSE IF tag \in DOMAIN g7set[seturi] THEN Ret(L, g7set[seturi][tag])
  ELSE EnumFound(EnumScan(EnumPermitted(L, seturi, tag), seturi, tag,
                          IF ExtHas(L, tag) THEN L.ext[tag] ELSE <<>>, Undef),
                 seturi, tag)

\* enumval(seturi, tag): tag[0] of an absent tag is a TypeError
enumval(L, seturi, tag) ==
  IF tag.k # "str" THEN Out(L, TUndef, "TypeError")
  ELSE Returns(enumvalOf(L, seturi, tag.s))

G7Enum(o) == IF o.thrown # "no" THEN o ELSE Out(o.L, TEnumValue(o.v), "no")

RECURSIVE EnumEach(_, _, _, _)
\* str.split(...).map(s => new G7Enum(lookup.enumval(pltype.set, s), lookup))
EnumNext(r, seturi, pieces, done) == EnumEach(r.L, seturi, pieces, Append(done, TEnumValue(r.v)))

EnumEach(L, seturi, pieces, done) ==
  IF pieces = <<>> THEN Out(L, TList(done), "no")
  ELSE EnumNext(enumvalOf(L, seturi, Head(pieces)), seturi, Tail(pieces), done)

\* The text a constructor's regular expression sees
Coerced(str) == IF str.k = "str" THEN str.s ELSE StringUndefined

\* case 'https://gedcom.io/terms/v7/type-Date#period'
PeriodOnly(r) ==
  IF r.v.type \notin {<<"D", "a", "t", "e", "P", "e", "r", "i", "o", "d">>, <<"e", "m", "p", "t", "y">>}
  THEN Out(LErr(r.L, "Expected DatePeriod", <<r.v.type>>), TDateValue(DVEmpty), "no")
  ELSE Out(r.L, TDateValue(r.v), "no")

DateOut(r) == Out(r.L, TDateValue(r.v), "no")

TimeOut(r) == Out(r.L, TTimeValue(r.v), "no")

AllDigits(s) == s # <<>> /\ \A k \in 1..Len(s) : IsDigit(s[k])

\* /^[^\0-\x1f\/]*(\/[^\0-\x1f\/]*\/[^\0-\x1f\/]*)?$/.test(s)
NameOK(s) ==
  /\ \A k \in 1..Len(s) : s[k] \notin {"\n", "\r", "\t"}
  /\ Cardinality({k \in 1..Len(s) : s[k] = "/"}) \in {0, 2}

\* G7Datatype.fromString(pltype, str, lookup): [L, v, thrown]
G7DatatypeFromString(L, pltype, str) ==
  IF Truthy(str) /\ str.k # "str" THEN Out(L, str, "no")
  ELSE IF pltype.type = TNonNeg
    THEN (IF AllDigits(Coerced(str)) THEN Out(L, TNumber(ToNum(str.s)), "no")
          ELSE Out(LErr(L, "integer payload expected", <<str>>), TNumber(0), "no"))
  ELSE IF pltype.type = TDate THEN DateOut(G7DateValue(L, Coerced(str)))
  ELSE IF pltype.type = TDatePeriod THEN PeriodOnly(G7DateValue(L, Coerced(str)))
  ELSE IF pltype.type = TTime THEN TimeOut(G7Time(L, Coerced(str)))
  ELSE IF pltype.type = TListText
    THEN (IF str.k # "str" THEN Out(L, TUndef, "TypeError")
          ELSE Out(L, TList(SplitList(str.s, <<>>)), "no"))
  ELSE IF pltype.type = TEnum THEN G7Enum(enumval(L, pltype.set, str))
  ELSE IF pltype.type = TListEnum
    THEN (IF str.k # "str" THEN Out(L, TUndef, "TypeError")
          ELSE EnumEach(L, pltype.set, SplitList(str.s, <<>>), <<>>))
  ELSE IF pltype.type = TYNull
    THEN Out(IF Truthy(str) /\ str # TStr(<<"Y">>) THEN LErr(L, "Expected Y or empty", <<str>>) ELSE L,
             IF str = TStr(<<"Y">>) THEN str ELSE TStr(<<>>), "no")
  ELSE IF pltype.type = TName
    THEN (IF ~NameOK(Coerced(str))
          THEN Out(LErr(L, "Invalid personal name", <<str>>),
                   TStr(ReplaceAll(str.s, <<"/">>, <<"\\u2044">>)), "no")
          ELSE Out(L, str, "no"))
  ELSE Returns(DatatypeFromString(L, <<>>, pltype, str))

(***************************************************************************)
(* SpecPayload: a caller hands a payload, a string or none, to             *)
(* G7Datatype.fromString with a payload type.                              *)
(***************************************************************************)
PayloadTypes ==
  {PlType(t, <<>>) : t \in {TListText, TDate, TDatePeriod, TTime, TName, TNonNeg, TYNull,
                            TAge, TPointer, TNull, TString}}
  \cup {PlEnum(TEnum, SetSEX), PlEnum(TListEnum, SetSEX)}

PayloadTexts ==
  {<<>>, <<"Y">>, <<"M">>, <<"_", "X">>, <<"Q">>, <<"M", ",", " ", "F">>, <<"M", " ", ",", "Q">>, <<"5">>, <<"5", "y">>, <<"3", "3">>, <<"T", "O", " ", "3", "3">>,
   <<"B", "E", "F", " ", "3", "3">>, <<"7", ":", "0", "5">>, <<"a", "/", "b">>, <<"/", "a", "/">>}

PayloadArgs == {TUndef} \cup {TStr(s) : s \in PayloadTexts}

NoOutcome == Out(NewLookups, TUndef, "none")

InitPayload ==
  /\ pc = "payload" /\ cfg = g7ConfGEDC /\ built = <<>> /\ input = <<>>
  /\ text = NoText /\ parsed = NoParse /\ json = <<>> /\ copy = <<>>
  /\ \E t \in PayloadTypes, s \in PayloadArgs : arg = [pltype |-> t, str |-> s]
  /\ res = NoOutcome

\* G7Datatype.fromString(pltype, str, lookup)
PayloadFromString ==
  /\ pc = "payload"
  /\ res' = G7DatatypeFromString(NewLookups, arg.pltype, arg.str)
  /\ pc' = "parsed"
  /\ UNCHANGED <<cfg, built, input, text, parsed, json, copy, arg>>

NextPayload == PayloadFromString

SpecPayload == InitPayload /\ [][NextPayload]_vars

(***************************************************************************)
(* SpecPointer: a caller makes INDI records and links them with            *)
(* findOrCreate(ASSO, p), p being one of the records.                      *)
(***************************************************************************)
MaxTargets == 3

MaxPointer == 2

\* The INDI records of the dataset
Individuals(S) == IF MapHas(S.records, V(INDI)) THEN MapGet(S.records, V(INDI)) ELSE <<>>

NoPointer == [n |-> 0, this |-> 0, p |-> 0, pre |-> NoResult, found |-> 0, v |-> 0]

InitPointer ==
  /\ pc = "link" /\ cfg = g7ConfGEDC /\ built = <<>> /\ input = <<>>
  /\ text = NoText /\ parsed = NoParse /\ json = <<>> /\ copy = <<>>
  /\ arg = NoPointer /\ res = G7Dataset(NewLookups, FALSE)

\* dataset.createRecord('https://gedcom.io/terms/v7/INDI')
PointerCreateRecord ==
  /\ pc = "link" /\ Len(Individuals(res)) < MaxTargets
  /\ res' = createRecord(res, V(INDI), TUndef, NoPlType, Undef)
  /\ UNCHANGED <<pc, cfg, built, input, text, parsed, json, copy, arg>>

\* this.findOrCreate('https://gedcom.io/terms/v7/ASSO', p), with the structure
\* it returns and the outcome of this.find on the same arguments in arg'
PointerFindOrCreate ==
  /\ pc = "link" /\ arg.n < MaxPointer
  /\ \E i, j \in 1..Len(Individuals(res)) :
       /\ arg' = [n |-> arg.n + 1, this |-> Individuals(res)[i], p |-> Individuals(res)[j],
                  pre |-> res,
                  found |-> find(res, Individuals(res)[i],
                                 <<Pair(V(ASSO), TRec(Individuals(res)[j]))>>),
                  v |-> findOrCreate(res, Individuals(res)[i],
                                     <<Pair(V(ASSO), TRec(Individuals(res)[j]))>>).v]
       /\ res' = findOrCreate(res, Individuals(res)[i], <<Pair(V(ASSO), TRec(Individuals(res)[j]))>>)
  /\ UNCHANGED <<pc, cfg, built, input, text, parsed, json, copy>>

NextPointer == PointerCreateRecord \/ PointerFindOrCreate

SpecPointer == InitPointer /\ [][NextPointer]_vars

(***************************************************************************)
(* SpecWrap: a caller makes structures with createSubstructure and         *)
(* createRecord, giving the payload type or leaving it to the lookups,     *)
(* and goes on after a call that threw.  arg.wrap is the text that the     *)
(* function in lookup.err puts before a message: empty for the caller's    *)
(* own function, "type: " for the wrapper of a call.                       *)
(***************************************************************************)
MaxWrap == 2

WrapTypes == {V(SEX), V(EXID)}

WrapPayloads == {TUndef, TStr(<<"M">>), TStr(<<"Q">>)}

WrapPlTypes == {NoPlType, PlType(TListText, <<>>), PlEnum(TEnum, SetSEX), PlType(TPointer, <<>>)}

NoWrap == [n |-> 0, wrap |-> <<>>, thrown |-> "no"]

\* msg => oldErr(type+': '+msg), oldErr putting `wrap` before its messages
Wrapper(wrap, type) == wrap \o type \o <<":", " ">>

\* The messages after the first `from` ones went through a sink that puts
\* `wrap` before them
RECURSIVE Wrapped(_, _, _)
Wrapped(log, from, wrap) ==
  IF Len(log) <= from THEN log
  ELSE Append(Wrapped(SubSeq(log, 1, Len(log) - 1), from, wrap),
              IF log[Len(log)].sink = "err" THEN [log[Len(log)] EXCEPT !.pfx = wrap \o @]
              ELSE log[Len(log)])

\* The payload type of a call
WrapPlType(type, pltype) == IF pltype = NoPlType THEN lookupPayload(type) ELSE pltype

\* createSubstructure(type, payload, pltype) with lookup.err as `wrap` left
\* it, o being the outcome of G7Datatype.fromString: the dataset after the
\* call, unchanged when fromString threw
WrapCreated(S, wrap, this, type, o) ==
  IF o.thrown # "no" THEN S
  ELSE G7Structure([S EXCEPT !.L = [o.L EXCEPT !.log = Wrapped(@, Len(S.L.log), Wrapper(wrap, type))]],
                   type, o.v, this, Undef)

\* lookup.err after the call: oldErr when the assignment of line 555 was
\* reached, the wrapper when fromString threw
WrapAfter(wrap, type, o) == IF o.thrown # "no" THEN Wrapper(wrap, type) ELSE wrap

InitWrap ==
  /\ pc = "wrap" /\ cfg = g7ConfGEDC /\ built = <<>> /\ input = <<>>
  /\ text = NoText /\ parsed = NoParse /\ json = <<>> /\ copy = <<>>
  /\ arg = NoWrap /\ res = G7Dataset(NewLookups, FALSE)

\* The call with the outcome o of G7Datatype.fromString
WrapCall(this, type, o) ==
  /\ res' = WrapCreated(res, arg.wrap, this, type, o)
  /\ arg' = [n |-> arg.n + 1, wrap |-> WrapAfter(arg.wrap, type, o), thrown |-> o.thrown]

\* structure.createSubstructure(type, payload, pltype), in a try block
WrapCreateSubstructure ==
  /\ pc = "wrap" /\ arg.n < MaxWrap
  /\ \E this \in 1..Len(res.T), type \in WrapTypes, str \in WrapPayloads, pltype \in WrapPlTypes :
       WrapCall(this, type, G7DatatypeFromString(res.L, WrapPlType(type, pltype), str))
  /\ UNCHANGED <<pc, cfg, built, input, text, parsed, json, copy>>

\* dataset.createRecord('https://gedcom.io/terms/v7/HEAD'): the payload type
\* of HEAD leaves nothing to parse, and the dataset has a header
WrapCreateRecord ==
  /\ pc = "wrap" /\ arg.n > 0
  /\ res' = [createRecord(res, V(HEAD), TUndef, NoPlType, Undef)
               EXCEPT !.L.log = Wrapped(@, Len(res.L.log), arg.wrap)]
  /\ pc' = "after"
  /\ UNCHANGED <<cfg, built, input, text, parsed, json, copy, arg>>

NextWrap == WrapCreateSubstructure \/ WrapCreateRecord

SpecWrap == InitWrap /\ [][NextWrap]_vars

(***************************************************************************)
(* SpecClassify: a caller registers extensions, makes records with         *)
(* extension tags and URIs, runs populateSchema (the first step of         *)
(* toGEDC), starts further datasets with the same lookups, and then looks  *)
(* a tag up.  arg.reg holds the tags the caller gave to addExtension.      *)
(***************************************************************************)
MaxClassify == 3

ClassifyTags == {<<"_", "X">>, <<"_", "Y">>}

ClassifyURIs == {<<"x", ":", "a">>}

ClassifyTypes == ClassifyTags \cup ClassifyURIs \cup {V(INDI)}

ClassifyContainers == {<<>>, V(INDI)}

NoClassify ==
  [n |-> 0, reg |-> {}, done |-> FALSE, kind |-> "none", uri |-> <<>>, tag |-> <<>>,
   before |-> 0, entry |-> <<>>]

InitClassify ==
  /\ pc = "use" /\ cfg = g7ConfGEDC /\ built = <<>> /\ input = <<>>
  /\ text = NoText /\ parsed = NoParse /\ json = <<>> /\ copy = <<>>
  /\ arg = NoClassify /\ res = G7Dataset(NewLookups, FALSE)

\* lookup.addExtension(tag, uri)
ClassifyAddExtension ==
  /\ pc = "use" /\ arg.n < MaxClassify
  /\ \E tag \in ClassifyTags, uri \in ClassifyURIs :
       /\ res' = [res EXCEPT !.L = addExtension(@, tag, uri)]
       /\ arg' = [arg EXCEPT !.n = @ + 1, !.reg = @ \cup {tag}]
  /\ UNCHANGED <<pc, cfg, built, input, text, parsed, json, copy>>

\* dataset.createRecord(type)
ClassifyCreateRecord ==
  /\ pc = "use" /\ arg.n < MaxClassify
  /\ \E type \in ClassifyTypes : res' = createRecord(res, type, TUndef, NoPlType, Undef)
  /\ arg' = [arg EXCEPT !.n = @ + 1]
  /\ UNCHANGED <<pc, cfg, built, input, text, parsed, json, copy>>

\* dataset.populateSchema()
ClassifyPopulate ==
  /\ pc = "use" /\ arg.n < MaxClassify
  /\ res' = datasetPopulateSchema(res).S
  /\ arg' = [arg EXCEPT !.n = @ + 1, !.done = TRUE]
  /\ UNCHANGED <<pc, cfg, built, input, text, parsed, json, copy>>

\* dataset = new G7Dataset(lookup), with the lookups of the dataset before
ClassifyNewDataset ==
  /\ pc = "use" /\ arg.n < MaxClassify /\ arg.done
  /\ res' = G7Dataset(res.L, FALSE)
  /\ arg' = [arg EXCEPT !.n = @ + 1]
  /\ UNCHANGED <<pc, cfg, built, input, text, parsed, json, copy>>

\* lookup.substructure(uri, tag)
ClassifySubstructure ==
  /\ pc = "use"
  /\ \E uri \in ClassifyContainers, tag \in ClassifyTags :
       /\ res' = [res EXCEPT !.L = substructure(res.L, uri, tag).L]
       /\ arg' = [arg EXCEPT !.kind = "substructure", !.uri = uri, !.tag = tag,
                             !.before = Len(res.L.log),
                             !.entry = substructure(res.L, uri, tag).v.type]
  /\ pc' = "looked"
  /\ UNCHANGED <<cfg, built, input, text, parsed, json, copy>>

\* lookup.enumval(seturi, tag)
ClassifyEnumval ==
  /\ pc = "use"
  /\ \E tag \in ClassifyTags :
       /\ res' = [res EXCEPT !.L = enumvalOf(res.L, SetSEX, tag).L]
       /\ arg' = [arg EXCEPT !.kind = "enumval", !.uri = SetSEX, !.tag = tag,
                             !.before = Len(res.L.log),
                             !.entry = enumvalOf(res.L, SetSEX, tag).v]
  /\ pc' = "looked"
  /\ UNCHANGED <<cfg, built, input, text, parsed, json, copy>>

NextClassify ==
  \/ ClassifyAddExtension \/ ClassifyCreateRecord \/ ClassifyPopulate \/ ClassifyNewDataset
  \/ ClassifySubstructure \/ ClassifyEnumval

SpecClassify == InitClassify /\ [][NextClassify]_vars

(***************************************************************************)
(* Properties of the serializer and the parser on forests built by hand.   *)
(***************************************************************************)
\* The structures some pointer refers to
Targets(F) == {n \in 1..Len(F) : F[n].ref # <<>>}

\* The tags, identifiers and string payloads of F obey the dialect c: tags and
\* identifiers match the dialect's expressions, no identifier is VOID, every
\* target has an identifier of its own, and no string payload is empty.
Obeys(F, c) ==
  /\ \A n \in 1..Len(F) :
       /\ TagOK(c, F[n].tag)
       /\ F[n].id # Undef => XrefOK(c, F[n].id) /\ F[n].id # VOID
       /\ F[n].payload.k = "str" => F[n].payload.s # <<>>
  /\ \A n \in Targets(F) : F[n].id # Undef
  /\ \A n, m \in Targets(F) : F[n].id = F[m].id => n = m

\* The lines of a text: the characters between two line terminators
TextLines(s) == SplitLines(s, <<>>)

\* C1: parsing the text toString produced for a forest that obeys the dialect
\* yields a forest with the same tags, nesting, pointer targets and string
\* payloads.
TagRoundTrip ==
  (pc = "parsed" /\ Obeys(built, cfg))
    => (parsed.status = "ok" /\ Shape(parsed.F) = Shape(built))

\* C7: when toString returns for a structure with a string payload and a
\* positive maxlen, no line of the text has more than maxlen characters.
LineLengthBound ==
  (pc = "serialized" /\ text.status = "ok" /\ cfg.len > 0
     /\ \E n \in 1..Len(built) : built[n].payload.k = "str")
    => \A k \in 1..Len(TextLines(text.text)) : Len(TextLines(text.text)[k]) <= cfg.len

\* The prefix of an inserted line under structure n: "<level+1> CONC "
ConcPrefix(F, n) == NumStr(LevelOf(F, n) + 1) \o <<" ">> \o CONC \o <<" ">>

\* Some line of the unwrapped text of F is longer than maxlen
TooLong(F, maxlen, escapes) ==
  LET whole == toStringEach(F, Records(F), -1, escapes).text
  IN  \E k \in 1..Len(TextLines(whole)) : Len(TextLines(whole)[k]) > maxlen

\* C8: toString terminates for every positive maxlen, and throws when maxlen
\* is not larger than the prefix of an inserted line and the payload does not fit.
WrappingTerminates ==
  (pc = "serialized" /\ cfg.len > 0)
    => /\ text.status # "diverges"
       /\ (/\ Len(built) = 1
           /\ cfg.len <= Len(ConcPrefix(built, 1))
           /\ TooLong(built, cfg.len, cfg.escapes))
            => text.status = "throws"

\* C10: fromJSON of the toJSON of a forest has the same tags, nesting, string
\* payloads, void pointers and pointer targets as the forest.
JSONRoundTrip == pc = "copied" => Shape(copy) = Shape(built)

(***************************************************************************)
(* Properties of the parser on input texts.                                *)
(***************************************************************************)
\* The structures as the loop of fromString leaves them, before fixPtrs
Pre == ParseLoop(ParseStart, Render(input), cfg, TRUE).F

\* How many messages m the logger received (about a, when a is given)
Logged(log, m) == Cardinality({k \in 1..Len(log) : log[k].msg = m})

LoggedAbout(log, m, a) == Cardinality({k \in 1..Len(log) : log[k].msg = m /\ log[k].a = a})

Count(seq, x) == Cardinality({k \in 1..Len(seq) : seq[k] = x})

\* The input is in canonical v7 form and parses without a logged error
Canonical ==
  /\ cfg = g7ConfGEDC
  /\ \A k \in 1..Len(input) : input[k].k = "line" /\ input[k].tag # CONC
  /\ parsed.status = "ok" /\ parsed.log = <<>>

\* C2: fromString followed by toString reproduces a canonical v7 text byte
\* for byte, every identifier of the input included.
TextRoundTrip ==
  (pc = "reserialized" /\ Canonical)
    => (text.status = "ok" /\ text.text = Render(input))

\* C3: a pointer @VOID@ becomes the null pointer and is never reported; a
\* pointer @P@ to a declared identifier becomes a structure declaring it; any
\* other pointer becomes the null pointer and is reported exactly once.
PointerResolution ==
  (pc = "parsed" /\ parsed.status = "ok")
    => \A n \in 1..Len(Pre) :
         Pre[n].ptr.k = "str" =>
           LET P == Pre[n].ptr.s
               declared == {m \in 1..Len(Pre) : Pre[m].id = P}
               pointing == {m \in 1..Len(Pre) : Pre[m].ptr = PtrStr(P)}
           IN  IF P = VOID
               THEN /\ parsed.F[n].payload = PlNull
                    /\ LoggedAbout(parsed.log, "pointer to undefined xref_id", P) = 0
               ELSE IF declared # {}
               THEN parsed.F[n].payload.k = "ptr" /\ parsed.F[n].payload.n \in declared
               ELSE /\ parsed.F[n].payload = PlNull
                    /\ LoggedAbout(parsed.log, "pointer to undefined xref_id", P)
                         = Cardinality(pointing)

\* Every target of F has an identifier, none has VOID, and no two share one
TargetIds(F) ==
  /\ \A t \in Targets(F) : F[t].id # Undef /\ F[t].id # VOID
  /\ \A t, u \in Targets(F) : F[t].id = F[u].id => t = u

\* C4: after the id pass every target has an identifier of its own that is
\* not VOID, and keeps its preferred identifier when no earlier target uses it.
IdentifierAssignment ==
  /\ (pc = "parsed" /\ parsed.status = "ok")
       => /\ TargetIds(parsed.F)
          /\ \A t \in Targets(parsed.F) :
               (/\ Pre[t].id # Undef /\ Pre[t].id # VOID
                /\ \A u \in Targets(parsed.F) : u < t => parsed.F[u].id # Pre[t].id)
                 => parsed.F[t].id = Pre[t].id
  /\ pc = "copied" => TargetIds(copy)

\* C6: fromString completes and returns a forest for every input.
ParserCompletes == pc = "parsed" => parsed.status = "ok"

\* The text a payload holds
TextOf(pl) == IF pl.k = "str" THEN pl.s ELSE <<>>

LastLine == input[Len(input)]

\* What fromString returns for the input without its last line
Before == fromString(Render(SubSeq(input, 1, Len(input) - 1)), cfg, TRUE)

\* The last line of the input is a CONT or CONC line at a level n+1 >= 1 that
\* the path before it allows
SpliceCase ==
  /\ pc = "parsed" /\ input # <<>>
  /\ LastLine.k = "line" /\ LastLine.tag \in {CONT, CONC}
  /\ Before.status = "ok"
  /\ LastLine.lvl >= 1 /\ LastLine.lvl <= Len(Before.ctx)

\* The structure at level n on the path before the last line
Enclosing == Before.ctx[LastLine.lvl]

NoSpliceTags ==
  (pc = "parsed" /\ parsed.status = "ok")
    => \A n \in 1..Len(parsed.F) : parsed.F[n].tag \notin {CONT, CONC}

\* C5: a CONT or CONC line at level n+1, with a structure at level n on the
\* current path, changes the forest only in the string payload of that
\* structure: CONT appends a newline and the line's payload, CONC the line's
\* payload alone, and with len < 0 CONC appends nothing and is logged as
\* 'CONC not permitted'; a structure holding a pointer keeps it; no structure
\* of the returned forest has the tag CONT or CONC.
SpliceLaw ==
  /\ NoSpliceTags
  /\ SpliceCase =>
       LET old == Before.F[Enclosing].payload
           p == IF LastLine.pl = Undef THEN <<>> ELSE Unescape(LastLine.pl)
           banned == LastLine.tag = CONC /\ cfg.len < 0
           new == IF LastLine.tag = CONT THEN TextOf(old) \o <<"\n">> \o p
                  ELSE IF banned THEN TextOf(old)
                  ELSE TextOf(old) \o p
       IN  /\ parsed.status = "ok"
           /\ parsed.F = [Before.F EXCEPT ![Enclosing].payload =
                            IF old.k \in {"ptr", "null"} THEN old ELSE PlStr(new)]
           /\ Logged(parsed.log, "CONC not permitted")
                = Logged(Before.log, "CONC not permitted") + (IF banned THEN 1 ELSE 0)

\* A CONT line has been appended to a payload that held text
SpliceReached ==
  /\ SpliceCase /\ LastLine.tag = CONT
  /\ TextOf(Before.F[Enclosing].payload) # <<>>
  /\ parsed.status = "ok"

\* C5 as the specification words it: with len < 0 every CONC line of the input
\* is logged as 'CONC not permitted'.
SpliceEveryConc ==
  /\ SpliceLaw
  /\ (pc = "parsed" /\ parsed.status = "ok" /\ cfg.len < 0)
       => Logged(parsed.log, "CONC not permitted")
            = Cardinality({k \in 1..Len(input) : input[k].k = "line" /\ input[k].tag = CONC})

\* Structure n can be reached from the top-level structures of F
InForest(F, n) == \E k \in 1..Len(DocOrder(F)) : DocOrder(F)[k] = n

\* Every pointer of F refers to a structure of F whose references hold the
\* pointing structure once; sub and superstructure agree
PointersSound(F) ==
  /\ \A n \in 1..Len(F) :
       F[n].payload.k = "ptr" =>
         /\ F[n].payload.n \in 1..Len(F) /\ InForest(F, F[n].payload.n)
         /\ Count(F[F[n].payload.n].ref, n) = 1
  /\ \A n \in 1..Len(F) : F[n].ptr = PtrNone
  /\ \A n \in 1..Len(F) : \A i \in 1..Len(F[n].sub) : F[F[n].sub[i]].sup = n
  /\ \A n \in 1..Len(F) : F[n].sup = 0 => \A m \in 1..Len(F) : Count(F[m].sub, n) = 0

\* Every pointer of F refers to a top-level structure
PointersToRecords(F) ==
  \A n \in 1..Len(F) : F[n].payload.k = "ptr" => F[F[n].payload.n].sup = 0

\* C9: in a forest returned by fromString or fromJSON every pointer payload is
\* the null pointer or a structure of the same forest, at any level, whose
\* references contain the pointing structure exactly once; s.sub[i] has the
\* superstructure s and a top-level structure has none.
PointerInvariant ==
  /\ (pc = "parsed" /\ parsed.status = "ok") => PointersSound(parsed.F)
  /\ pc = "copied" => PointersSound(copy)

\* A returned forest holds a pointer to a substructure
PointerToSubstructure ==
  /\ pc = "copied"
  /\ \E n \in 1..Len(copy) : copy[n].payload.k = "ptr" /\ copy[copy[n].payload.n].sup # 0
  /\ \E n \in 1..Len(parsed.F) :
       parsed.F[n].payload.k = "ptr" /\ parsed.F[parsed.F[n].payload.n].sup # 0

\* C9 as the specification words it: every pointer refers to a top-level
\* structure.
PointerInvariantTopLevel ==
  /\ PointerInvariant
  /\ (pc = "parsed" /\ parsed.status = "ok") => PointersToRecords(parsed.F)
  /\ pc = "copied" => PointersToRecords(copy)

(***************************************************************************)
(* The query selector.                                                     *)
(***************************************************************************)
RECURSIVE ChainMatches(_, _, _, _)
\* Structure n matches segment k of the path d, with ancestors matching the
\* segments before it
ChainMatches(F, n, d, k) ==
  /\ F[n].tag = d.segs[k].tag
  /\ IF k = 1 THEN d.top => F[n].sup = 0
     ELSE IF d.segs[k].deep
          THEN \E a \in AncestorsOrSelf(F, n) \ {n} : ChainMatches(F, a, d, k - 1)
          ELSE F[n].sup # 0 /\ ChainMatches(F, F[n].sup, d, k - 1)

\* The structures the path selects, each once, in document order
Selected(F, d) == SelectSeq(DocOrder(F), LAMBDA n : ChainMatches(F, n, d, Len(d.segs)))

\* C11: querySelectorAll on a forest returned by fromString yields exactly the
\* structures whose chain of ancestors matches the dot path, each once and
\* in document order, and querySelector returns the first of them, or
\* undefined when there is none.
QuerySelectorLaw ==
  /\ pc = "queriedAll" => res = Selected(parsed.F, arg)
  /\ pc = "queried" => res = NextValue(Selected(parsed.F, arg))

\* A query with a '..' segment and a '.' segment that selects two
\* structures and passes over a third with the last segment's tag
QuerySelectorReached ==
  /\ pc = "queriedAll" /\ Len(res) >= 2
  /\ \E k \in 2..Len(arg.segs) : arg.segs[k].deep
  /\ \E n \in 1..Len(parsed.F) :
       /\ parsed.F[n].tag = arg.segs[Len(arg.segs)].tag
       /\ \A k \in 1..Len(res) : res[k] # n

(***************************************************************************)
(* The typed layer.                                                        *)
(***************************************************************************)
\* G7Dataset.fromGEDC(GEDCStruct.fromString(str, g7ConfGEDC, lookup.err), lookup)
FromGEDCOfParsed(p) ==
  IF p.status # "ok" THEN [NoResult EXCEPT !.thrown = "TypeError"]
  ELSE fromGEDC(p.F, Logger(NewLookups, p.log))

\* What fromString has to agree with: it fails only when the composition
\* fails, and otherwise returns its dataset and diagnostics
AgreesWith(r, comp) ==
  /\ r.thrown # "no" => comp.thrown # "no"
  /\ comp.thrown = "no" => r = comp

\* C12: G7Dataset.fromString(str, lookup) returns the same dataset and emits
\* the same diagnostics as G7Dataset.fromGEDC(GEDCStruct.fromString(str,
\* g7ConfGEDC, lookup.err), lookup), and fails only when that fails.
DatasetFromStringLaw ==
  pc = "fromString" => AgreesWith(res, FromGEDCOfParsed(fromString(Render(input), g7ConfGEDC, TRUE)))

\* The records the dataset stores: its header and the lists of its records Map
Stored(S) ==
  ({S.header} \cup {MapValues(S.records)[k] : k \in 1..Len(MapValues(S.records))}) \ {0}

RECURSIVE TopOf(_, _)
\* The record a typed structure belongs to
TopOf(T, n) == IF T[n].sup = 0 THEN n ELSE TopOf(T, T[n].sup)

\* The structures of the dataset, at any depth
InDataset(S) == {n \in 1..Len(S.T) : TopOf(S.T, n) \in Stored(S)}

\* The tag-layer structures fromGEDC makes typed structures of, in the order
\* it makes them, and the number of structures made before them
Origin(G) ==
  PreOrderEach(G, SelectSeq(Records(G), LAMBDA r : G[r].tag # TRLR))

OriginOffset(G) == IF G[Records(G)[1]].tag = HEAD THEN 0 ELSE 3

\* The typed structures of the dataset made of a tag-layer pointer to a substructure
FromSubstructurePointers(G, S) ==
  {k \in 1..Len(Origin(G)) :
     /\ OriginOffset(G) + k \in InDataset(S)
     /\ G[Origin(G)[k]].payload.k = "ptr"
     /\ G[G[Origin(G)[k]].payload.n].sup # 0}

Forbidden(log) ==
  {k \in 1..Len(log) : log[k].sink = "err" /\ log[k].msg = "v7 forbids pointers to substructures"}

\* C13: after G7Dataset.fromGEDC returns, every structure of the dataset whose
\* payload is a pointer holds the null pointer or a record stored in the
\* dataset's header or records, no payload is still a tag-layer structure,
\* and each tag-layer pointer to a substructure was reported as 'v7 forbids
\* pointers to substructures' and replaced by the null pointer.
TypedPointerFixup ==
  pc = "dataset" /\ res.thrown = "no" =>
    /\ \A n \in InDataset(res) :
         /\ res.T[n].payload.k # "gedc"
         /\ res.T[n].payload.k = "rec" => res.T[n].payload.n \in Stored(res)
    /\ \A k \in FromSubstructurePointers(parsed.F, res) :
         res.T[OriginOffset(parsed.F) + k].payload.k = "null"
    /\ Cardinality(Forbidden(res.L.log)) >= Cardinality(FromSubstructurePointers(parsed.F, res))

RECURSIVE Subtree(_, _)
\* A typed structure and its substructures at any depth
Subtree(T, n) == {n} \cup UNION {Subtree(T, MapValues(T[n].sub)[k]) : k \in 1..Len(MapValues(T[n].sub))}

\* The messages of the last call
NewLog == SubSeq(res.L.log, arg.before + 1, Len(res.L.log))

\* How many times the call delivered a message
Delivered(log, sink, m, a) ==
  Cardinality({k \in 1..Len(log) : log[k].sink = sink /\ log[k].msg = m /\ log[k].a = a})

\* The children of a structure that have a type
ChildrenOf(node, type) == IF MapHas(node.sub, type) THEN MapGet(node.sub, type) ELSE <<>>

\* The validated structures of type u that miss a required child of v's type,
\* and those with more than one child where at most one is allowed
Missing(T, n, u, v) ==
  {s \in Subtree(T, n) : T[s].type = u /\ v.cardinality[2] = "1" /\ ChildrenOf(T[s], v.type) = <<>>}

Duplicated(T, n, u, v) ==
  {s \in Subtree(T, n) : T[s].type = u /\ v.cardinality[4] = "1" /\ Len(ChildrenOf(T[s], v.type)) > 1}

\* C14: validate() reports exactly one 'Missing substructure' error naming
\* the parent type and the child type for a structure of a container type
\* without a child whose entry has lower bound 1, none when the child is
\* present, and one 'Duplicate substructures' error exactly when more than
\* one child of an entry with upper bound 1 is present.
CardinalityLaw ==
  pc = "validated" =>
    \A u \in DOMAIN g7substructure \ {<<>>} : \A k \in 1..Len(g7substructure[u]) :
      /\ res.T[arg.n].type = u =>
           /\ Delivered(NewLog, "err", "Missing substructure", <<u, g7substructure[u][k].type>>)
                >= Cardinality(Missing(res.T, arg.n, u, g7substructure[u][k]) \cap {arg.n})
           /\ Delivered(NewLog, "err", "Duplicate substructures", <<u, g7substructure[u][k].type>>)
                >= Cardinality(Duplicated(res.T, arg.n, u, g7substructure[u][k]) \cap {arg.n})
      /\ res.thrown = "no" =>
           /\ Delivered(NewLog, "err", "Missing substructure", <<u, g7substructure[u][k].type>>)
                = Cardinality(Missing(res.T, arg.n, u, g7substructure[u][k]))
           /\ Delivered(NewLog, "err", "Duplicate substructures", <<u, g7substructure[u][k].type>>)
                = Cardinality(Duplicated(res.T, arg.n, u, g7substructure[u][k]))

\* validate() returned for a structure with two children of a type of which
\* it may have one, and met a structure that misses a required child
CardinalityReached ==
  /\ pc = "validated" /\ res.thrown = "no"
  /\ \E u \in DOMAIN g7substructure \ {<<>>} : \E k \in 1..Len(g7substructure[u]) :
       /\ res.T[arg.n].type = u
       /\ arg.n \in Duplicated(res.T, arg.n, u, g7substructure[u][k])
  /\ \E u \in DOMAIN g7substructure \ {<<>>} : \E k \in 1..Len(g7substructure[u]) :
       Missing(res.T, arg.n, u, g7substructure[u][k]) # {}

\* The number of EXID structures without EXID-TYPE that the call validates
Deprecated(T, n) == {s \in Subtree(T, n) : DeprecatedEXID(T[s])}

\* C15: validating an EXID without an EXID-TYPE child delivers the fixed
\* deprecation message to the warn sink exactly once for that structure,
\* validation continues and returns its error count; no warning is
\* delivered for an EXID with an EXID-TYPE child.
DeprecatedEXIDLaw ==
  pc = "validated" =>
    /\ res.thrown = "no"
    /\ Delivered(NewLog, "warn", "Deprecated EXID", <<>>) = Cardinality(Deprecated(res.T, arg.n))
    /\ res.v = Cardinality({k \in 1..Len(NewLog) : NewLog[k].sink = "err"})

(***************************************************************************)
(* C16: the datatypes print what they parsed.                              *)
(***************************************************************************)
\* The constructor reported no error for the payload
ParsedClean(r) == \A k \in 1..Len(r.L.log) : r.L.log[k].sink # "err"

\* C16: for every payload string that G7Age, G7Time, G7Date or G7DateValue
\* parses without reporting an error, toString() of the parsed value returns
\* a string instead of throwing, and parsing that string yields a value with
\* the same fields.
DatatypeRoundTrip ==
  /\ pc \in {"printed", "reparsed"} /\ ParsedClean(res) => text.status = "ok"
  /\ pc = "reparsed" /\ ParsedClean(res) => copy.v = res.v

(***************************************************************************)
(* C17 and C18: findOrCreate.                                              *)
(***************************************************************************)
\* No call on the dataset has reported an error
FindClean == \A k \in 1..Len(res.L.log) : res.L.log[k].sink # "err"

\* C17: two successive findOrCreate calls with the same arguments, whose
\* payloads are -1, strings in an accepted spelling or structures used as
\* pointers, return the same structure, and the second call creates no
\* record and no substructure.
FindOrCreateIdempotent ==
  pc = "again" /\ FindClean => res.v = arg.v /\ Len(res.T) = Len(arg.last.pre.T)

\* The structures of type t among those findOrCreate on `this` looks through
OfType(S, this, t) == Len(FindCandidates(S, this, t))

\* The call of arg.last found no match for its full argument list, but a
\* structure of its first (type, payload) pair existed
OuterOnly ==
  /\ arg.calls > 0 /\ Len(arg.last.args) > 1
  /\ find(arg.last.pre, arg.last.this, arg.last.args) = 0
  /\ find(arg.last.pre, arg.last.this, <<arg.last.args[1]>>) # 0

\* C18: when only a deeper (type, payload) pair is unmatched, findOrCreate
\* reuses the existing structure of the first pair: it returns it, creates
\* the missing descendants under it, and leaves the number of structures of
\* the outer type unchanged.
FindOrCreateReusesOuter ==
  pc = "find" /\ OuterOnly =>
    /\ res.v = find(arg.last.pre, arg.last.this, <<arg.last.args[1]>>)
    /\ OfType(res, arg.last.this, arg.last.args[1].type)
         = OfType(arg.last.pre, arg.last.this, arg.last.args[1].type)
    /\ find(res, arg.last.this, arg.last.args) = res.v

(***************************************************************************)
(* C19: the typed JSON round trip.                                         *)
(***************************************************************************)
\* The position of structure n in the sequence list, 0 when it is not there
Position(list, n) ==
  IF \E k \in 1..Len(list) : list[k] = n THEN CHOOSE k \in 1..Len(list) : list[k] = n ELSE 0

\* A payload with a pointer given as the position of its target in the
\* document order
PayloadIn(list, pl) == IF pl.k = "rec" THEN TRec(Position(list, pl.n)) ELSE pl

\* The structures of a dataset in document order: for each its type, the
\* position of its superstructure, whether it is the header, and its payload
Outline(S, list) ==
  [k \in 1..Len(list) |->
     [type |-> S.T[list[k]].type, sup |-> Position(list, S.T[list[k]].sup),
      header |-> list[k] = S.header, payload |-> PayloadIn(list, S.T[list[k]].payload)]]

\* C19: G7Dataset.fromJSON of the JSON text of d.toJSON() yields a dataset
\* with the same header and records per type, the same substructures per
\* type in the same order, payloads of the same datatype with equal fields,
\* and pointers to the records that correspond to the original targets.
TypedJSONRoundTrip ==
  /\ pc \in {"json", "copied"} => json.status = "ok"
  /\ pc = "copied" => Outline(copy, Below(copy, Tops(copy))) = Outline(res, Below(res, Tops(res)))

(***************************************************************************)
(* C20. Schema tags are distinct: the Map that G7Dataset.populateSchema    *)
(* returns gives different tags to different URIs, whatever the dataset    *)
(* holds and whatever the extension table held before the call.            *)
(***************************************************************************)
SchemaTagsDistinct ==
  pc = "schema" /\ json.status = "ok" =>
    \A i, j \in 1..Len(json.J) : i # j => json.J[i].tag # json.J[j].tag

(***************************************************************************)
(* C21. SCHMA agrees with the emitted tags.                                *)
(***************************************************************************)
\* The payloads of the TAG substructures of HEAD.SCHMA in the forest F
SchmaPayloads(F) ==
  {F[t].payload.s : t \in {k \in 1..Len(F) :
     /\ F[k].tag = TAG /\ F[k].payload.k = "str" /\ F[k].sup # 0
     /\ F[F[k].sup].tag = SCHMA /\ F[F[k].sup].sup # 0
     /\ F[F[F[k].sup].sup].tag = HEAD /\ F[F[F[k].sup].sup].sup = 0}}

\* The structures of the forest emitted with an extension tag for a URI
EmittedExt(F, S, of) ==
  {k \in 1..Len(F) : of[k] # 0 /\ F[k].tag[1] = "_" /\ Includes(S.T[of[k]].type, ":")}

\* The extension tags the forest uses as undocumented tags
EmittedUndoc(F, S, of) ==
  {F[k].tag : k \in {j \in 1..Len(F) : of[j] # 0 /\ F[j].tag[1] = "_" /\ ~Includes(S.T[of[j]].type, ":")}}

\* The tag of a TAG payload: the text before its first space
TagOfPayload(p) == SubSeq(p, 1, (CHOOSE i \in 1..(Len(p) + 1) :
                                   (i = Len(p) + 1 \/ p[i] = " ") /\ \A j \in 1..(i - 1) : p[j] # " ") - 1)

\* C21: in the forest toGEDC returns, every structure emitted with an
\* extension tag T for a URI U has the entry 'T U' among the TAG substructures
\* of HEAD.SCHMA, no TAG of HEAD.SCHMA gives T another URI, and no TAG of
\* HEAD.SCHMA names a tag that the forest uses as an undocumented tag.
SchmaAgreesWithTags ==
  pc = "gedc" /\ json.status = "ok" =>
    /\ \A k \in EmittedExt(built, res, json.of) :
         /\ (built[k].tag \o <<" ">> \o res.T[json.of[k]].type) \in SchmaPayloads(built)
         /\ \A p \in SchmaPayloads(built) :
              TagOfPayload(p) = built[k].tag => p = built[k].tag \o <<" ">> \o res.T[json.of[k]].type
    /\ \A p \in SchmaPayloads(built) : TagOfPayload(p) \notin EmittedUndoc(built, res, json.of)

(***************************************************************************)
(* C22. Single header.                                                     *)
(***************************************************************************)
\* The structures the dataset stores as records
StoredRecords(S) == {MapValues(S.records)[k] : k \in 1..Len(MapValues(S.records))}

\* The last createRecord call was for a further header
FurtherHeader == arg.n > 0 /\ arg.type \in {HEAD, V(HEAD)} /\ arg.header # 0

\* C22: a dataset made by new G7Dataset or returned by fromGEDC, after any
\* createRecord calls, has one header of type HEAD; a createRecord call leaves
\* the header in place; a call for a further HEAD is reported as 'Only one
\* header is allowed per dataset' and its record is stored neither as header
\* nor in records; and no key of records is the HEAD type or TRLR.
SingleHeader ==
  pc = "dataset" /\ res.thrown = "no" =>
    /\ res.header # 0 /\ res.T[res.header].type = V(HEAD)
    /\ res.header \notin StoredRecords(res)
    /\ arg.n > 0 /\ arg.header # 0 => res.header = arg.header
    /\ FurtherHeader =>
         /\ \E k \in (arg.log + 1)..Len(res.L.log) :
              res.L.log[k].sink = "err" /\ res.L.log[k].msg = "Only one header is allowed"
         /\ Len(res.T) # res.header /\ Len(res.T) \notin StoredRecords(res)
    /\ \A k \in 1..Len(res.records) : res.records[k].type \notin {V(HEAD), TRLR, V(TRLR)}

\* C22 without the keys of records
SingleHeaderOnly ==
  pc = "dataset" /\ res.thrown = "no" =>
    /\ res.header # 0 /\ res.T[res.header].type = V(HEAD)
    /\ res.header \notin StoredRecords(res)
    /\ arg.n > 0 /\ arg.header # 0 => res.header = arg.header
    /\ FurtherHeader =>
         /\ \E k \in (arg.log + 1)..Len(res.L.log) :
              res.L.log[k].sink = "err" /\ res.L.log[k].msg = "Only one header is allowed"
         /\ Len(res.T) # res.header /\ Len(res.T) \notin StoredRecords(res)

(***************************************************************************)
(* C23. Extension classification by substructure(container, tag).          *)
(***************************************************************************)
\* The last step was the call substructure(arg.uri, arg.tag)
Looked == pc = "lookup" /\ arg.tag # <<>>

\* The message m about a was delivered to the sink, in this call or, as the
\* lookups deliver a message once, in an earlier one
DeliveredOnce(sink, m, a) ==
  \E k \in 1..Len(res.L.log) : res.L.log[k].sink = sink /\ res.L.log[k].msg = m /\ res.L.log[k].a = a

\* The messages the last call delivered
DuringCall == {res.L.log[k] : k \in (arg.before + 1)..Len(res.L.log)}

\* A container that is a structure type with a standard tag
StandardContainer(uri) == uri \in DOMAIN g7tag /\ First(g7tag[uri]) # "_"

\* The tag is registered for one URI, which is no standard child of the container
RegisteredOnce(uri, tag) ==
  /\ First(tag) = "_" /\ ~HasEntry(uri, tag)
  /\ ExtHas(res.L, tag) /\ Len(res.L.ext[tag]) = 1 /\ ~HasAlias(uri, res.L.ext[tag][1])

\* C23: for a container of the registry, substructure returns the registry's
\* entry of a member tag without any message; for an extension tag
\* registered for one URI that is no standard child it returns that URI and
\* warns 'Unregistered extension', not 'Undocumented extension'; for an
\* extension tag never registered it returns the tag and warns 'Undocumented
\* extension'; for a standard tag that is no member of a standard container it
\* reports 'Prohibited'.
SubstructureClassification ==
  Looked =>
    /\ HasEntry(arg.uri, arg.tag) => arg.entry = EntryOf(arg.uri, arg.tag) /\ DuringCall = {}
    /\ RegisteredOnce(arg.uri, arg.tag) =>
         /\ arg.entry.type = res.L.ext[arg.tag][1]
         /\ DeliveredOnce("warn", "Unregistered extension", <<arg.uri, res.L.ext[arg.tag][1]>>)
         /\ \A m \in DuringCall : m.msg # "Undocumented extension"
    /\ First(arg.tag) = "_" /\ ~HasEntry(arg.uri, arg.tag) /\ ~ExtHas(res.L, arg.tag) =>
         /\ arg.entry.type = arg.tag
         /\ DeliveredOnce("warn", "Undocumented extension", <<arg.uri, arg.tag>>)
    /\ First(arg.tag) # "_" /\ ~HasEntry(arg.uri, arg.tag) /\ StandardContainer(arg.uri) =>
         DeliveredOnce("err", "Prohibited", <<arg.uri, arg.tag>>)

\* A registered extension tag was looked up in a standard container that has
\* no standard child of its URI, and the warning was delivered
ClassificationReached ==
  /\ Looked /\ RegisteredOnce(arg.uri, arg.tag) /\ StandardContainer(arg.uri)
  /\ \E k \in 1..Len(res.L.log) : res.L.log[k].msg = "Unregistered extension"

(***************************************************************************)
(* C24. Deduplication of diagnostics.                                      *)
(***************************************************************************)
\* The text a sink receives: the prefix of the wrapper, the message and its
\* arguments
DeliveredText(m) == <<m.pfx, m.msg, m.a>>

\* C24: within one lookups object each distinct message text is delivered to
\* the err sink at most once and to the warn sink at most once, whichever
\* component produced it (structure creation, validate, datatype parsing or
\* the lookups' own helpers).
DiagnosticsDeduplicated ==
  \A i, j \in DOMAIN res.L.log :
    i < j /\ res.L.log[i].sink = res.L.log[j].sink =>
      DeliveredText(res.L.log[i]) # DeliveredText(res.L.log[j])

(***************************************************************************)
(* C25. Document order of diagnostics.                                     *)
(***************************************************************************)
\* The messages of GEDCStruct.fromString among those the sinks received
TagLayerLog == SelectSeq(res.L.log, LAMBDA m : m.msg = "gedc")

\* The input lines that can have triggered the message m of the tag layer:
\* the line it names, or for an unresolved pointer the lines that point to
\* its identifier
TriggerLines(m) ==
  IF m.line > 0 THEN {m.line}
  ELSE {k \in 1..Len(input) : input[k].pl = <<"@">> \o m.a \o <<"@">>}

\* C25: for one input processed by GEDCStruct.fromString and then
\* G7Dataset.fromGEDC, the messages are delivered in the document order of the
\* lines that triggered them: a message triggered by an earlier line is never
\* delivered after a message triggered by a later one.  Stated for the
\* messages of fromString, which the sinks receive first.
DiagnosticsInDocumentOrder ==
  pc = "dataset" =>
    \A i, j \in 1..Len(TagLayerLog) :
      i < j =>
        \E a \in TriggerLines(TagLayerLog[i].a[1]), b \in TriggerLines(TagLayerLog[j].a[1]) :
          a <= b

(***************************************************************************)
(* C26. Payload parsing never aborts.                                      *)
(***************************************************************************)
\* G7Datatype.fromString has been called with the payload type and payload of arg
PayloadParsed == pc = "parsed"

\* C26: for every payload type and every payload that is a string or absent,
\* G7Datatype.fromString returns a value without throwing, and an absent
\* payload of a date type yields a DateValue of type 'empty', as the empty
\* string does.
PayloadParsingNeverAborts ==
  PayloadParsed =>
    /\ res.thrown = "no"
    /\ arg.pltype.type \in {TDate, TDatePeriod} /\ arg.str \in {TUndef, TStr(<<>>)} =>
         res.v.k = "datevalue" /\ res.v.s.type = <<"e", "m", "p", "t", "y">>

\* C26 for payloads that are strings
StringPayloadParsed ==
  PayloadParsed /\ arg.str.k = "str" =>
    /\ res.thrown = "no"
    /\ arg.pltype.type \in {TDate, TDatePeriod} /\ arg.str = TStr(<<>>) =>
         res.v.k = "datevalue" /\ res.v.s.type = <<"e", "m", "p", "t", "y">>

(***************************************************************************)
(* C27. Unparseable regions and line numbers.                              *)
(***************************************************************************)
\* The maximal runs of lines of the input that no line of GEDC syntax matches
RawRuns(lines) ==
  Cardinality({k \in 1..Len(lines) : lines[k].k = "raw" /\ (k = 1 \/ lines[k - 1].k # "raw")})

\* The message m names the physical line of a line with the level it is about
NamesItsLine(m) ==
  \E k \in 1..Len(input) : input[k].k = "line" /\ NumStr(input[k].lvl) = m.a /\ m.line = k

\* C27: with a logger, each maximal region of the input that no matched line
\* consumes (before the first matched line, between two, or after the last)
\* is reported once as 'unable to parse', and the line number of a line-level
\* message is the 1-based number of the physical line that triggered it.
UnparseableRegionsReported ==
  pc = "parsed" /\ parsed.status = "ok" =>
    /\ Logged(parsed.log, "unable to parse") = RawRuns(input)
    /\ \A k \in 1..Len(parsed.log) :
         parsed.log[k].msg = "level cannot follow level" => NamesItsLine(parsed.log[k])

\* The regions before a matched line are reported once each
LeadingRegionsReported ==
  pc = "parsed" /\ parsed.status = "ok" /\ input[Len(input)].k = "line" =>
    Logged(parsed.log, "unable to parse") = RawRuns(input)

(***************************************************************************)
(* C28. find with a structure as payload.                                  *)
(***************************************************************************)
\* The ASSO substructures the receiver of the last call had before the call
LinksBefore == FindCandidates(arg.pre, arg.this, V(ASSO))

\* One of them pointed to the record p of the call
LinkedBefore == \E k \in 1..Len(LinksBefore) : arg.pre.T[LinksBefore[k]].payload = TRec(arg.p)

\* C28: find(type, p) with p a structure returns a candidate only if the
\* candidate's payload is p itself, never one that points to another record;
\* so findOrCreate(type, p) creates a new pointer substructure when the
\* existing substructures of the type point to other records.
FindComparesTargets ==
  arg.n > 0 =>
    /\ arg.found # 0 => arg.pre.T[arg.found].payload = TRec(arg.p)
    /\ ~LinkedBefore =>
         /\ arg.v > Len(arg.pre.T)
         /\ res.T[arg.v].payload = TRec(arg.p) /\ res.T[arg.v].sup = arg.this

\* With no ASSO under the receiver, findOrCreate makes the pointer to p
FirstLinkCreated ==
  arg.n > 0 /\ LinksBefore = <<>> =>
    /\ arg.found = 0 /\ arg.v > Len(arg.pre.T)
    /\ res.T[arg.v].payload = TRec(arg.p) /\ res.T[arg.v].sup = arg.this

(***************************************************************************)
(* C29. The wrapper of the error sink.                                     *)
(***************************************************************************)
\* The report of a further header, made after the calls
LaterReports ==
  {k \in 1..Len(res.L.log) : res.L.log[k].msg = "Only one header is allowed"}

\* C29: whenever createSubstructure or createRecord finishes, by returning or
\* by an exception raised while the payload is parsed, lookup.err is the
\* function it was before the call, so that a message emitted afterwards
\* carries no type prefix of an earlier call.
ErrSinkRestored ==
  /\ arg.wrap = <<>>
  /\ \A k \in LaterReports : res.L.log[k].pfx = <<>>

\* C29 for the calls that return
ErrSinkRestoredOnReturn ==
  arg.thrown = "no" /\ arg.n = 1 =>
    /\ arg.wrap = <<>>
    /\ \A k \in LaterReports : res.L.log[k].pfx = <<>>

(***************************************************************************)
(* C30. Serialization and the classification of tags.                      *)
(***************************************************************************)
\* The last step looked up an extension tag that was never given to addExtension
LookedUpUnregistered == pc = "looked" /\ arg.tag \notin arg.reg

\* C30: an extension tag never registered with addExtension is classified as
\* undocumented by substructure and enumval (the lookup returns the tag
\* itself and emits no 'Ambiguous' diagnostic for it) in every state of the
\* lookups, also after populateSchema or toGEDC has run on a dataset that
\* uses the tag, in the same dataset or in a later one with the same lookups.
ClassificationUnchangedBySchema ==
  LookedUpUnregistered =>
    /\ arg.entry = arg.tag
    /\ \A m \in DuringCall : m.msg # "Ambiguous"

\* C30 before any populateSchema
ClassificationBeforeSchema ==
  LookedUpUnregistered /\ ~arg.done =>
    /\ arg.entry = arg.tag
    /\ \A m \in DuringCall : m.msg # "Ambiguous"

====
